---- MODULE Spec2Model ----
(***************************************************************************)
(* A model of the plan execution engine of openwork (Cowork-Lite):         *)
(*   - the path sandbox of the workspace executor                          *)
(*     (src/src/executor/index.ts, isPathAllowed / validatePath),          *)
(*   - the plan validator (src/src/planner/validator.ts),                  *)
(*   - the two plan runners: Executor.executePlan of the workspace         *)
(*     executor (the {task, steps:[{action}]} dialect) and the step loop   *)
(*     of CoworkLite.run over Executor.executeStep (src/unnamed/part_004,  *)
(*     src/unnamed/part_009; the {goal, steps:[{type}]} dialect).          *)
(***************************************************************************)
EXTENDS Integers, Sequences, FiniteSets, TLC

VARIABLES
    \* ---- path sandbox, applied as a pure function (SpecSandbox)
    sbConfig,      \* the WorkspaceConfig the sandbox is asked under
    sbTarget,      \* the targetPath handed to validatePath
    sbResult,      \* what validatePath did: [state: "none" | "ok" | "error", path, error]
    \* ---- plan validator, applied as a pure function (SpecValidator)
    vPlan,         \* the candidate plan handed to validateTaskPlan
    vMaxSteps,     \* the maxSteps argument
    vResult,       \* what validateTaskPlan did: [state: "none" | "ok" | "error", message, details]
    \* ---- plan runners (Spec)
    impl,          \* "workspace" (Executor.executePlan) | "cowork" (CoworkLite.run)
    execConfig,    \* the executor's WorkspaceConfig; its workingDirectory is context.workspace
    plan,          \* the plan being run: a sequence of steps
    dryRun,        \* context.dryRun (cowork)
    nodeEnv,       \* process.env.NODE_ENV (cowork, SafetyLayer.requestConfirmation)
    fs,            \* the filesystem: a set of nodes [path, kind, content]
    pc,            \* where the run is: "start" | "loop" | "confirm" | "running" | "done" | "threw"
    idx,           \* 1-based index of the step the loop is at
    results,       \* the results pushed so far
    lastRead,      \* context.get('lastReadContent') of the workspace executor
    logs,          \* context.logs (cowork)
    deadline,      \* TRUE once the running step's timeout has elapsed
    orphans,       \* operations that lost the race against the timeout and still run
    started,       \* history: indexes of the steps whose execution was started, in order
    dispatched,    \* history: indexes of the steps whose handler was dispatched
    touched,       \* history: every filesystem access made, [op, path]
    refused,       \* history: indexes of the steps whose confirmation was refused
    fsBefore,      \* history: the filesystem when the current step was started
    \* ---- safety layer, applied to one step (SpecSafety)
    sfStep,        \* the TaskStep handed to the SafetyLayer
    sfEnv,         \* process.env.NODE_ENV
    sfCheck,       \* what checkStep returned: <<>> before the call, <<check>> after
    sfPrompt,      \* history: <<line>> once promptUser has read a line, else <<>>
    sfConfirmed,   \* what requestConfirmation resolved to: "none" | "true" | "false"
    \* ---- recovery manager (SpecRecovery)
    customStrategies, \* DefaultRecoveryManager.customStrategies: error name -> <<strategy>> or <<>>
    retryCounters, \* DefaultRecoveryManager.retryCounters: retry key -> count (0 when absent)
    rmError,       \* <<error>> the caller holds and hands to attemptRecovery, else <<>>
    rmOutcome,     \* how the last attemptRecovery settled, and what it did on the way
    rmPrev,        \* history: the retry granted before the last one, <<>> if none
    rmCan,         \* what canRecover answered for the error held: <<>> until asked
    rmRegistered,  \* history: error name -> <<the strategy last registered for it>> or <<>>
    \* ---- error factory (SpecTaxonomy)
    efCall,        \* <<[category, options]>> handed to ErrorFactory.createError, else <<>>
    efError,       \* <<error>> it returned, else <<>>
    \* ---- concurrent callers of one recovery manager (SpecConcurrent)
    ccPc,          \* caller -> "idle" | "delay" | "escalated" | "threw"
    ccGranted,     \* history: how many calls were granted a retry
    \* ---- the cowork-lite process of src/unnamed/part_004 (SpecCli)
    cliArgs,       \* process.argv.slice(2)
    cliPc,         \* "off" | "start" | "constructed" | "rejected" | "exited"
    cliPlanner,    \* CoworkLite.planner: "unset" until loadConfiguration assigns it
    cliLoad,       \* loadConfiguration: "none" | "suspended" (at its await) | "done"
    cliThrown,     \* <<message>> run() rejected with, else <<>>
    cliResults,    \* the results of the steps run() has executed
    cliStdout,     \* whether the usage text was printed
    cliStderr,     \* console.error lines
    cliExit,       \* <<code>> once the process has exited, else <<>>
    \* ---- the interactive loop of src/src/index.ts (SpecLoop)
    ilPc,          \* "off" | "ask" | "planning" | "confirm" | "executing" | "closed"
    ilPlan,        \* <<plan>> generatePlan returned for the current task, else <<>>
    ilAnswer,      \* <<line>> answered to 'Proceed? (y/n): ' for that plan, else <<>>
    ilOutcome,     \* how the last task ended: "none" | "rejected" | "cancelled" | "executed"
    \* ---- the rule-based planner of src/src/planner/index.ts (SpecPlanner)
    plGoal,        \* the goal handed to createPlan: a sequence of words
    plConfig,      \* PlannerConfig: [maxSteps]
    plPlan,        \* <<plan>> createPlan returned, else <<>>
    \* ---- one recovery manager handed errors of several contexts (SpecKeys)
    ksCounters,    \* retryCounters of the manager: retry key -> retries counted
    ksGranted,     \* history: error -> retries attemptRecovery has granted to it
    \* ---- a caller that hands escalations back to attemptRecovery (SpecEscalate)
    esCustom,      \* customStrategies of the manager: error name -> Undef or Some(strategy)
    esCounters,    \* retryCounters of the manager
    esError,       \* <<error>> the caller holds, else <<>>
    esFed,         \* whether that error was thrown by attemptRecovery as an escalation
    esOutcome,     \* <<[settled, before]>> of the attemptRecovery call on it, else <<>>
    \* ---- EnhancedCoworkLite.run of src/src/index-enhanced.ts (SpecEnhanced)
    erOptions,     \* the options of EnhancedCoworkLite.run: [dryRun, force]
    erPlan,        \* what each step of the created plan does when executed: "ok" | "fails"
    erPc,          \* "off" | "start" | "prompt" | "gate" | "loop" | "summary" | "returned" | "exited"
    erTimer,       \* the 30 s timer of promptUser: "unset" | "pending" | "fired"
    erAnswer,      \* <<>> or <<the string promptUser resolved with>>
    erResults,     \* the results array of run
    erSummary,     \* <<>> or <<the TaskSummary returned>>
    \* ---- the Logger of src/src/logger/index.ts (SpecLogger)
    logMin,        \* options.minLevel of the Logger
    logCalls,      \* history: the level of each log call, in call order
    logBuffer,     \* Logger.buffer: the entries not yet taken by a flushBuffer
    logFile,       \* the lines of the log file
    logLinks,      \* how many flushBuffer calls were chained on writePromise
    logDone,       \* how many of them have settled
    logTask,       \* <<[entries, at]>> of the flushBuffer in progress, else <<>>
    logWaits,      \* the flush() calls: [links, before, resolved, file]
    logOverlap     \* history: whether a log call came while a flushBuffer was in progress

sbVars == <<sbConfig, sbTarget, sbResult>>
vVars == <<vPlan, vMaxSteps, vResult>>
runVars == <<impl, execConfig, plan, dryRun, nodeEnv, fs, pc, idx, results, lastRead, logs,
             deadline, orphans, started, dispatched, touched, refused, fsBefore>>
sfVars == <<sfStep, sfEnv, sfCheck, sfPrompt, sfConfirmed>>
rmVars == <<customStrategies, retryCounters, rmError, rmOutcome, rmPrev, rmCan,
           rmRegistered>>
efVars == <<efCall, efError>>
ccVars == <<ccPc, ccGranted>>
cliVars == <<cliArgs, cliPc, cliPlanner, cliLoad, cliThrown, cliResults, cliStdout, cliStderr,
            cliExit>>
ilVars == <<ilPc, ilPlan, ilAnswer, ilOutcome>>
plVars == <<plGoal, plConfig, plPlan>>
ksVars == <<ksCounters, ksGranted>>
esVars == <<esCustom, esCounters, esError, esFed, esOutcome>>
erVars == <<erOptions, erPlan, erPc, erTimer, erAnswer, erResults, erSummary>>
logVars == <<logMin, logCalls, logBuffer, logFile, logLinks, logDone, logTask, logWaits, logOverlap>>
moreVars == <<efVars, ccVars, cliVars, ilVars, plVars, ksVars, esVars, erVars, logVars>>
efOthers == <<sbVars, vVars, runVars, sfVars, rmVars, ccVars, cliVars, ilVars, plVars, ksVars, esVars, erVars, logVars>>
ccOthers == <<sbVars, vVars, runVars, sfVars, efVars, cliVars, ilVars, plVars, ksVars, esVars, erVars, logVars>>
cliOthers == <<sbVars, vVars, runVars, sfVars, rmVars, efVars, ccVars, ilVars, plVars, ksVars, esVars, erVars, logVars>>
ilOthers == <<sbVars, vVars, sfVars, rmVars, efVars, ccVars, cliVars, plVars, ksVars, esVars, erVars, logVars>>
plOthers == <<sbVars, vVars, runVars, sfVars, rmVars, efVars, ccVars, cliVars, ilVars, ksVars, esVars, erVars, logVars>>
ksOthers == <<sbVars, vVars, runVars, sfVars, rmVars, efVars, ccVars, cliVars, ilVars, plVars, esVars, erVars, logVars>>
esOthers == <<sbVars, vVars, runVars, sfVars, rmVars, efVars, ccVars, cliVars, ilVars, plVars, ksVars, erVars, logVars>>
erOthers == <<sbVars, vVars, runVars, sfVars, rmVars, efVars, ccVars, cliVars, ilVars, plVars, ksVars, esVars, logVars>>
logOthers == <<sbVars, vVars, runVars, sfVars, rmVars, efVars, ccVars, cliVars, ilVars, plVars, ksVars, esVars, erVars>>
vars == <<sbVars, vVars, runVars, sfVars, rmVars, moreVars>>

(***************************************************************************)
(* Bounds of the model.                                                    *)
(***************************************************************************)
MaxSegs == 2        \* segments of a target path drawn for the sandbox
MaxPlanLen == 2     \* steps of a plan that is run
MaxVSteps == 3      \* steps of a candidate plan that is validated
MaxLimit == 3       \* largest maxSteps handed to the validator
MaxSchemaSteps == 2 \* steps of a candidate handed to validatePlan
MaxRetries == 2     \* largest maxRetries a drawn retry strategy names
MaxCallers == 2     \* concurrent callers of one recovery manager
MaxOrphans == 1     \* handlers of timed-out steps still running in the interactive loop
MaxLoopLen == 1     \* steps of a plan the interactive loop is given
MaxReuseLen == 2    \* steps of a plan given to an executor that is used again
MaxGoalWords == 2   \* words of a goal handed to the rule-based planner
MaxPlannerSteps == 3 \* largest maxSteps a planner is configured with
RandomGrain == 2    \* Math.random() is drawn from {0, 1/g, .., (g-1)/g}

(***************************************************************************)
(* Strings that are compared by prefix are sequences of characters.        *)
(***************************************************************************)
Slash == <<"/">>
Dot == <<".">>
DotDot == <<".", ".">>
NameW == <<"w">>
NameWX == <<"w", "x">>
NameA == <<"a">>
NameB == <<"b">>

\* String.prototype.startsWith
startsWith(s, prefix) ==
    /\ Len(prefix) <= Len(s)
    /\ SubSeq(s, 1, Len(prefix)) = prefix

\* the segments of a path after normalisation: "." dropped, ".." pops (and
\* stays at the root of an absolute path)
RECURSIVE NormalizeFrom(_, _)
NormalizeFrom(stack, segs) ==
    IF segs = <<>> THEN stack
    ELSE LET s == Head(segs)
             next == IF s = Dot THEN stack
                     ELSE IF s = DotDot
                          THEN (IF stack = <<>> THEN stack
                                ELSE SubSeq(stack, 1, Len(stack) - 1))
                          ELSE Append(stack, s)
         IN NormalizeFrom(next, Tail(segs))

\* path.resolve(base, target), base absolute and normalised: an absolute
\* target replaces the base, a relative one is appended to it
resolve(base, target) ==
    IF target.abs THEN NormalizeFrom(<<>>, target.segs)
    ELSE NormalizeFrom(base, target.segs)

\* path.join(base, target): plain concatenation, then normalisation; a leading
\* "/" of the target is only a separator
join(base, target) == NormalizeFrom(base, target.segs)

\* path.dirname of an absolute normalised path
dirname(p) == IF p = <<>> THEN p ELSE SubSeq(p, 1, Len(p) - 1)

\* the string of an absolute normalised path: "/" for the root, else "/a/b"
RECURSIVE PathString(_)
PathString(p) ==
    IF p = <<>> THEN Slash
    ELSE IF Len(p) = 1 THEN Slash \o p[1]
    ELSE PathString(SubSeq(p, 1, Len(p) - 1)) \o Slash \o p[Len(p)]

\* p is dir itself or nested under it (component-wise)
IsUnder(p, dir) ==
    /\ Len(dir) <= Len(p)
    /\ SubSeq(p, 1, Len(dir)) = dir

(***************************************************************************)
(* Path sandbox of the workspace executor.                                 *)
(***************************************************************************)
isPathAllowed(config, targetPath) ==
    LET resolvedPath == resolve(config.workingDirectory, targetPath)
        resolvedStr == PathString(resolvedPath)
    IN IF ~startsWith(resolvedStr, PathString(config.workingDirectory))
       THEN FALSE
       ELSE IF Len(config.allowedPaths) > 0
            THEN \E k \in 1..Len(config.allowedPaths) :
                   startsWith(resolvedStr,
                       PathString(resolve(config.workingDirectory,
                                          config.allowedPaths[k])))
            ELSE TRUE

\* the constant part of validatePath's ExecutorError message
OutOfBoundsMsg == "is outside allowed workspace boundaries"

validatePath(config, targetPath) ==
    IF ~isPathAllowed(config, targetPath)
    THEN [state |-> "error", path |-> <<>>, error |-> OutOfBoundsMsg]
    ELSE [state |-> "ok", path |-> resolve(config.workingDirectory, targetPath),
          error |-> ""]

(***************************************************************************)
(* SpecSandbox: validatePath applied to every target path of at most       *)
(* MaxSegs segments, under every workspace configuration below.            *)
(***************************************************************************)
Segments == {NameW, NameWX, NameA, Dot, DotDot}

RECURSIVE SeqsUpTo(_, _)
SeqsUpTo(S, n) ==
    IF n = 0 THEN {<<>>}
    ELSE LET shorter == SeqsUpTo(S, n - 1)
         IN shorter \cup {Append(q, x) : q \in shorter, x \in S}

TargetPaths == [abs : BOOLEAN, segs : SeqsUpTo(Segments, MaxSegs)]

Rel(segs) == [abs |-> FALSE, segs |-> segs]
Abs(segs) == [abs |-> TRUE, segs |-> segs]

\* config.workingDirectory is path.resolve(...) of the caller's directory:
\* absolute and normalised
SbWorkspaces == {<<NameW>>, <<NameW, NameA>>, <<>>}
SbAllowed == {<<>>, <<Rel(<<NameA>>)>>}

NoResult == [state |-> "none", path |-> <<>>, error |-> ""]

RunIdle ==
    /\ impl = "none" /\ plan = <<>>
    /\ execConfig = [workingDirectory |-> <<>>, allowedPaths |-> <<>>, maxSteps |-> 0,
                     playwrightEnabled |-> FALSE] /\ dryRun = FALSE /\ nodeEnv = "none"
    /\ fs = {} /\ pc = "off" /\ idx = 0 /\ results = <<>> /\ lastRead = <<>>
    /\ logs = <<>> /\ deadline = FALSE /\ orphans = {} /\ started = <<>>
    /\ dispatched = <<>> /\ touched = {} /\ refused = {} /\ fsBefore = {}

SbIdle ==
    /\ sbConfig = [workingDirectory |-> <<>>, allowedPaths |-> <<>>]
    /\ sbTarget = Rel(<<>>)
    /\ sbResult = NoResult

VIdle ==
    /\ vPlan = [task |-> [t |-> "undefined", v |-> ""], steps |-> <<>>,
                requiresConfirmation |-> [t |-> "undefined", v |-> ""],
                estimatedSteps |-> [t |-> "undefined", v |-> ""],
                extra |-> [t |-> "undefined", v |-> ""]]
    /\ vMaxSteps = <<>>
    /\ vResult = [state |-> "none", message |-> <<>>, details |-> {}]

SfIdle ==
    /\ sfStep = <<>> /\ sfEnv = "none" /\ sfCheck = <<>> /\ sfPrompt = <<>>
    /\ sfConfirmed = "none"

RmIdle ==
    /\ customStrategies = <<>> /\ retryCounters = <<>> /\ rmError = <<>>
    /\ rmOutcome = <<>> /\ rmPrev = <<>> /\ rmCan = <<>> /\ rmRegistered = <<>>

EfIdle == efCall = <<>> /\ efError = <<>>

CcIdle == ccPc = <<>> /\ ccGranted = 0

CliIdle ==
    /\ cliArgs = <<>> /\ cliPc = "off" /\ cliPlanner = "unset" /\ cliLoad = "none"
    /\ cliThrown = <<>> /\ cliResults = <<>> /\ cliStdout = FALSE /\ cliStderr = <<>>
    /\ cliExit = <<>>

IlIdle == ilPc = "off" /\ ilPlan = <<>> /\ ilAnswer = <<>> /\ ilOutcome = "none"

PlIdle == plGoal = <<>> /\ plConfig = [maxSteps |-> 0] /\ plPlan = <<>>

KsIdle == ksCounters = <<>> /\ ksGranted = <<>>

EsIdle == esCustom = <<>> /\ esCounters = <<>> /\ esError = <<>> /\ esFed = FALSE /\ esOutcome = <<>>

ErIdle == erOptions = <<>> /\ erPlan = <<>> /\ erPc = "off" /\ erTimer = "unset" /\ erAnswer = <<>> /\ erResults = <<>> /\ erSummary = <<>>

LogIdle == logMin = "off" /\ logCalls = <<>> /\ logBuffer = <<>> /\ logFile = <<>> /\ logLinks = 0 /\ logDone = 0 /\ logTask = <<>> /\ logWaits = <<>> /\ logOverlap = FALSE

MoreIdle == EfIdle /\ CcIdle /\ CliIdle /\ IlIdle /\ PlIdle /\ KsIdle /\ EsIdle /\ ErIdle /\ LogIdle

SbInit ==
    /\ sbConfig \in [workingDirectory : SbWorkspaces, allowedPaths : SbAllowed]
    /\ sbTarget \in TargetPaths
    /\ sbResult = NoResult
    /\ VIdle
    /\ RunIdle
    /\ SfIdle /\ RmIdle /\ MoreIdle

\* one call of validatePath
SbValidate ==
    /\ sbResult.state = "none"
    /\ sbResult' = validatePath(sbConfig, sbTarget)
    /\ UNCHANGED <<sbConfig, sbTarget, vVars, runVars, sfVars, rmVars, moreVars>>

\* the next call, on another target path
SbAgain ==
    /\ sbResult.state # "none"
    /\ sbTarget' \in TargetPaths
    /\ sbResult' = NoResult
    /\ UNCHANGED <<sbConfig, vVars, runVars, sfVars, rmVars, moreVars>>

SbNext == SbValidate \/ SbAgain

SpecSandbox == SbInit /\ [][SbNext]_vars

\* C2: with allowedPaths empty, a target path that resolves outside the
\* workspace (neither the workspace directory nor nested under it) is
\* rejected with the out-of-bounds error, and one that resolves inside is
\* accepted and returned as an absolute path under the workspace.
C2_SandboxContainment ==
    (sbResult.state # "none" /\ sbConfig.allowedPaths = <<>>) =>
        LET r == resolve(sbConfig.workingDirectory, sbTarget)
        IN IF IsUnder(r, sbConfig.workingDirectory)
           THEN /\ sbResult.state = "ok"
                /\ sbResult.path = r
           ELSE /\ sbResult.state = "error"
                /\ sbResult.error = OutOfBoundsMsg

(***************************************************************************)
(* The filesystem: a set of nodes [path, kind, content], path an absolute  *)
(* normalised path, kind "dir" or "file". An operation returns              *)
(* [ok, fs, acc]: whether it succeeded, the filesystem after it, and the   *)
(* accesses it made (acc, a set of [op, path]).                            *)
(***************************************************************************)
Exists(f, p) == \E n \in f : n.path = p
IsDir(f, p) == \E n \in f : n.path = p /\ n.kind = "dir"
IsFile(f, p) == \E n \in f : n.path = p /\ n.kind = "file"
ContentOf(f, p) == (CHOOSE n \in f : n.path = p).content
DirNode(p) == [path |-> p, kind |-> "dir", content |-> ""]
FileNode(p, c) == [path |-> p, kind |-> "file", content |-> c]
Prefixes(p) == {SubSeq(p, 1, k) : k \in 0..Len(p)}
FilesIn(f, d) == {n.path : n \in {m \in f : m.kind = "file" /\ dirname(m.path) = d /\ m.path # d}}
FilesBelow(f, d) == {n.path : n \in {m \in f : m.kind = "file" /\ IsUnder(m.path, d)}}
DirsBelow(f, d) == {n.path : n \in {m \in f : m.kind = "dir" /\ IsUnder(m.path, d)}}

FsFail(f, acc) == [ok |-> FALSE, fs |-> f, acc |-> acc]
FsOk(f, acc) == [ok |-> TRUE, fs |-> f, acc |-> acc]

\* fs.mkdir(p, {recursive: true}): creates p and its missing ancestors; fails
\* when p or an ancestor is a file
mkdirRecursive(f, p) ==
    IF \E q \in Prefixes(p) : IsFile(f, q)
    THEN FsFail(f, {[op |-> "mkdir", path |-> p]})
    ELSE FsOk(f \cup {DirNode(q) : q \in {r \in Prefixes(p) : ~Exists(f, r)}},
              {[op |-> "mkdir", path |-> p]})

\* fs.writeFile(p, content): creates or overwrites the file p; fails when p is
\* a directory or its parent is not an existing directory
writeFile(f, p, content) ==
    IF IsDir(f, p) \/ ~IsDir(f, dirname(p))
    THEN FsFail(f, {[op |-> "write", path |-> p]})
    ELSE FsOk({n \in f : n.path # p} \cup {FileNode(p, content)},
              {[op |-> "write", path |-> p]})

\* fs.rename(src, dst): fails when src is missing, dst's parent is not a
\* directory, a file would replace a directory or a directory a file or a
\* non-empty directory, or dst lies under the directory src
MovedNode(n, src, dst) ==
    [n EXCEPT !.path = dst \o SubSeq(n.path, Len(src) + 1, Len(n.path))]

rename(f, src, dst) ==
    LET acc == {[op |-> "rename", path |-> src], [op |-> "rename", path |-> dst]}
        subtree == {n \in f : IsUnder(n.path, src)}
        bad == \/ ~Exists(f, src)
               \/ ~IsDir(f, dirname(dst))
               \/ (IsFile(f, src) /\ IsDir(f, dst))
               \/ (IsDir(f, src) /\ IsFile(f, dst))
               \/ (IsDir(f, src) /\ dst # src /\ IsUnder(dst, src))
               \/ (IsDir(f, src) /\ IsDir(f, dst) /\ dst # src
                     /\ \E n \in f : n.path # dst /\ IsUnder(n.path, dst))
    IN IF bad THEN FsFail(f, acc)
       ELSE IF src = dst THEN FsOk(f, acc)
       ELSE FsOk(({n \in f : n.path # dst} \ subtree)
                    \cup {MovedNode(n, src, dst) : n \in subtree}, acc)

\* fs.readdir(p): fails unless p is a directory
readdir(f, p) ==
    IF IsDir(f, p) THEN FsOk(f, {[op |-> "read", path |-> p]})
    ELSE FsFail(f, {[op |-> "read", path |-> p]})

\* SmartFileAnalyzer.analyzeDirectory(p): lists p recursively and reads every
\* file below it; every error is caught and logged, it never fails
analyzeDirectory(f, p) ==
    FsOk(f, {[op |-> "read", path |-> p]}
              \cup {[op |-> "read", path |-> q] : q \in DirsBelow(f, p)}
              \cup {[op |-> "read", path |-> q] : q \in FilesBelow(f, p)})

(***************************************************************************)
(* Optional values: <<>> is undefined, <<v>> is the value v.               *)
(***************************************************************************)
Undef == <<>>
Some(v) == <<v>>
\* step.params.x || dflt
OrElse(opt, dflt) == IF opt = Undef THEN dflt ELSE opt[1]
\* Boolean(x) of an optional boolean
Boolean(opt) == opt # Undef /\ opt[1]

(***************************************************************************)
(* Safety layer (src/src/safety/index.d.ts).                               *)
(***************************************************************************)
\* a list that leaves createFolder out
destructiveOperations_NoCreateFolder == {"writeFile", "renameFile", "deleteFile"}

destructiveOperations == {"writeFile", "renameFile", "deleteFile", "createFolder"}

assessRiskLevel(step) ==
    IF step.type = "readFiles" THEN "low"
    ELSE IF step.type = "extractData" THEN "low"
    ELSE IF step.type = "generateReport" THEN "medium"
    ELSE IF step.type = "createFolder" THEN "medium"
    ELSE IF step.type \in {"writeFile", "renameFile"} THEN "high"
    ELSE "medium"

generateWarnings(step) ==
    (IF step.type = "writeFile" THEN <<"This will create or overwrite a file">> ELSE <<>>)
    \o (IF step.type = "renameFile" THEN <<"This will rename a file">> ELSE <<>>)
    \o (IF step.type = "createFolder" THEN <<"This will create a new directory">> ELSE <<>>)

checkStep(step) ==
    LET isDestructive == step.type \in destructiveOperations
    IN [isDestructive |-> isDestructive,
        riskLevel |-> assessRiskLevel(step),
        warnings |-> generateWarnings(step),
        requiresConfirmation |-> isDestructive \/ Boolean(step.requiresConfirmation)]

\* an answer compared as typed
toLowerCase_AsTyped(str) == str

\* String.prototype.toLowerCase on the answers the model draws
toLowerCase(str) ==
    CASE str = "Y" -> "y"
      [] str = "YES" -> "yes"
      [] str = "Yes" -> "yes"
      [] str = "N" -> "n"
      [] str = "Sort" -> "sort"
      [] str = "CSV" -> "csv"
      [] str = "Summary" -> "summary"
      [] OTHER -> str

Answers == {"y", "Y", "yes", "YES", "Yes", "n", "N", "no", "", "ok"}

\* whether requestConfirmation reads a line of user input
promptsUser(step, env) == checkStep(step).requiresConfirmation /\ env # "test"

\* SafetyLayer.requestConfirmation(step), response being the line promptUser
\* reads when it is reached
requestConfirmation(step, env, response) ==
    IF ~checkStep(step).requiresConfirmation THEN TRUE
    ELSE IF env = "test" THEN TRUE
    ELSE toLowerCase(response) = "y" \/ toLowerCase(response) = "yes"

createDryRunLog(step) ==
    <<"[DRY RUN] ", step.type, ": ", step.description, " (Risk: ", checkStep(step).riskLevel, ")">>

(***************************************************************************)
(* Step executor of the cowork dialect (src/unnamed/part_009). A handler   *)
(* returns [ok, fs, acc, output, error]: the filesystem after it, the      *)
(* accesses it made, and what it returned or the message it threw.         *)
(***************************************************************************)
FsErrorMsg == <<"filesystem error">>
TypeErrorMsg == <<"The \"path\" argument must be of type string">>
DefaultDir == Rel(<<Dot>>)
DefaultFilename == Rel(<<<<"o", "u", "t", "p", "u", "t", ".", "t", "x", "t">>>>)

Handled(r, output) ==
    [ok |-> r.ok, fs |-> r.fs, acc |-> r.acc,
     output |-> IF r.ok THEN output ELSE "undefined",
     error |-> IF r.ok THEN <<>> ELSE FsErrorMsg]

Threw(f, msg) ==
    [ok |-> FALSE, fs |-> f, acc |-> {}, output |-> "undefined", error |-> msg]

executeReadFiles(step, workspace, f) ==
    Handled(readdir(f, resolve(workspace, OrElse(step.params.path, DefaultDir))),
            "files")

executeWriteFile(step, workspace, f) ==
    LET filename == OrElse(step.params.filename, DefaultFilename)
        content == OrElse(step.params.content, "")
        filePath == join(workspace, filename)
    IN Handled(writeFile(f, filePath, content), "bytesWritten")

\* the loop over step.params.folders: the first mkdir that fails throws, and
\* the folders created before it stay
RECURSIVE createFolders(_, _, _, _)
createFolders(folders, workspace, f, acc) ==
    IF folders = <<>> THEN FsOk(f, acc)
    ELSE LET r == mkdirRecursive(f, join(workspace, Head(folders)))
         IN IF ~r.ok THEN FsFail(r.fs, acc \cup r.acc)
            ELSE createFolders(Tail(folders), workspace, r.fs, acc \cup r.acc)

executeCreateFolder(step, workspace, f) ==
    Handled(createFolders(OrElse(step.params.folders, <<>>), workspace, f, {}),
            "createdFolders")

executeRenameFile(step, workspace, f) ==
    IF step.params.pattern = Undef \/ step.params.destination = Undef
    THEN Threw(f, TypeErrorMsg)
    ELSE Handled(rename(f, join(workspace, step.params.pattern[1]),
                           join(workspace, step.params.destination[1])),
                 "renamed")

executeExtractData(step, workspace, f) ==
    Handled(analyzeDirectory(f, resolve(workspace, OrElse(step.params.path, DefaultDir))),
            "extractedData")

executeGenerateReport(step, workspace, f) ==
    LET analysed == analyzeDirectory(f, workspace)
    IN IF step.params.outputPath # Undef
       THEN LET w == writeFile(f, resolve(workspace, step.params.outputPath[1]), "report")
            IN Handled([w EXCEPT !.acc = analysed.acc \cup w.acc], "report")
       ELSE Handled(analysed, "report")

\* a switch with a seventh case, for a kind the step type does not declare
KnownStepTypes_WithBrowser ==
    {"readFiles", "writeFile", "createFolder", "renameFile", "extractData",
     "generateReport", "browserAction"}

\* the step kinds executeStep's switch dispatches
KnownStepTypes ==
    {"readFiles", "writeFile", "createFolder", "renameFile", "extractData", "generateReport"}

UnknownStepTypeMsg(type) == <<"Unknown step type: ", type>>

\* the handler the switch of executeStep selects
RunHandler(step, workspace, f) ==
    CASE step.type = "readFiles" -> executeReadFiles(step, workspace, f)
      [] step.type = "writeFile" -> executeWriteFile(step, workspace, f)
      [] step.type = "createFolder" -> executeCreateFolder(step, workspace, f)
      [] step.type = "renameFile" -> executeRenameFile(step, workspace, f)
      [] step.type = "extractData" -> executeExtractData(step, workspace, f)
      [] step.type = "generateReport" -> executeGenerateReport(step, workspace, f)
      [] OTHER -> Threw(f, UnknownStepTypeMsg(step.type))

\* handleError + the error field of the failed result: every CoworkError is
\* built with userFriendly = true, so the field is the thrown message
handleError(msg) == [message |-> msg, userFriendly |-> TRUE]
ErrorField(coworkError) ==
    IF coworkError.userFriendly THEN coworkError.message
    ELSE <<"[MEDIUM] system: ">> \o coworkError.message

CancelledMsg == <<"User cancelled the operation">>

\* a refusal reported as a success
CancelledResult_AsSuccess(id) ==
    [stepId |-> id, success |-> TRUE, output |-> "undefined", error |-> <<>>]

\* the ExecutorResults executeStep returns
DryRunResult(id) ==
    [stepId |-> id, success |-> TRUE, output |-> "undefined", error |-> <<>>]
CancelledResult(id) ==
    [stepId |-> id, success |-> FALSE, output |-> "undefined", error |-> CancelledMsg]
SuccessResult(id, output) ==
    [stepId |-> id, success |-> TRUE, output |-> output, error |-> <<>>]
FailureResult(id, msg) ==
    [stepId |-> id, success |-> FALSE, output |-> "undefined",
     error |-> ErrorField(handleError(msg))]

\* an executeStep without the dry-run branch
StepEntry_NoDryRun(step, ctxDryRun) ==
    IF checkStep(step).requiresConfirmation THEN "confirm" ELSE "dispatch"

\* what executeStep does before the switch: "dryRun" (log and return),
\* "confirm" (await requestConfirmation) or "dispatch"
StepEntry(step, ctxDryRun) ==
    IF ctxDryRun THEN "dryRun"
    ELSE IF checkStep(step).requiresConfirmation THEN "confirm"
    ELSE "dispatch"

(***************************************************************************)
(* Step executor of the workspace dialect (src/src/executor/index.ts).     *)
(* context 'lastReadContent' is Undef or Some([isArray, text]); a handler  *)
(* returns [ok, fs, acc, output, error, lastRead].                         *)
(***************************************************************************)
\* JavaScript truthiness of the stored content: a string is falsy when
\* empty, an array never
Truthy(content) == content # Undef /\ (content[1].isArray \/ content[1].text # "")

LgDone(r, output, lr) ==
    [ok |-> r.ok, fs |-> r.fs, acc |-> r.acc,
     output |-> IF r.ok THEN output ELSE "undefined",
     error |-> IF r.ok THEN <<>> ELSE FsErrorMsg,
     lastRead |-> lr]

LgThrew(f, acc, msg, lr) ==
    [ok |-> FALSE, fs |-> f, acc |-> acc, output |-> "undefined", error |-> msg,
     lastRead |-> lr]

\* the ExecutorError validatePath throws for the first path of paths that is
\* not allowed, <<>> if all are
RECURSIVE FirstRejected(_, _)
FirstRejected(config, paths) ==
    IF paths = <<>> THEN <<>>
    ELSE IF validatePath(config, Head(paths)).state = "error"
         THEN <<"Path ", validatePath(config, Head(paths)).error>>
         ELSE FirstRejected(config, Tail(paths))

LgReadFiles(action, config, f, lr) ==
    LET resolvedPath == validatePath(config, action.path).path
        st == [op |-> "stat", path |-> resolvedPath]
    IN IF ~Exists(f, resolvedPath) THEN LgThrew(f, {st}, FsErrorMsg, lr)
       ELSE IF IsFile(f, resolvedPath)
       THEN LgDone(FsOk(f, {st, [op |-> "read", path |-> resolvedPath]}), "file",
                   Some([isArray |-> FALSE, text |-> ContentOf(f, resolvedPath)]))
       ELSE LET pattern == OrElse(action.pattern, Rel(<<>>))
                searchDir == join(resolvedPath, pattern)
                files == FilesIn(f, searchDir)
            IN LgDone(FsOk(f, {st, [op |-> "glob", path |-> searchDir]}
                                 \cup {[op |-> "read", path |-> q] : q \in files}),
                      "files", Some([isArray |-> TRUE, text |-> ""]))

FileExistsMsg == <<"File already exists: ">>

\* a createFile that writes without looking for the file first
LgCreateFile_Overwrites(action, config, f, lr) ==
    LET resolvedPath == validatePath(config, action.path).path
        m == mkdirRecursive(f, dirname(resolvedPath))
    IN IF ~m.ok THEN LgThrew(m.fs, m.acc, FsErrorMsg, lr)
       ELSE LET w == writeFile(m.fs, resolvedPath, action.content)
            IN LgDone([w EXCEPT !.acc = m.acc \cup w.acc], "bytesWritten", lr)

\* fs.access fails with ENOTDIR, which is thrown on, when an ancestor of the
\* path is a file; with ENOENT when the path is missing
LgCreateFile(action, config, f, lr) ==
    LET resolvedPath == validatePath(config, action.path).path
        ac == [op |-> "access", path |-> resolvedPath]
    IN IF Exists(f, resolvedPath) THEN LgThrew(f, {ac}, FileExistsMsg, lr)
       ELSE IF \E q \in Prefixes(dirname(resolvedPath)) : IsFile(f, q)
       THEN LgThrew(f, {ac}, FsErrorMsg, lr)
       ELSE LET m == mkdirRecursive(f, dirname(resolvedPath))
            IN IF ~m.ok THEN LgThrew(m.fs, {ac} \cup m.acc, FsErrorMsg, lr)
               ELSE LET w == writeFile(m.fs, resolvedPath, action.content)
                    IN LgDone([w EXCEPT !.acc = {ac} \cup m.acc \cup w.acc],
                              "bytesWritten", lr)

LgWriteFile(action, config, f, lr) ==
    LET resolvedPath == validatePath(config, action.path).path
        m == mkdirRecursive(f, dirname(resolvedPath))
    IN IF ~m.ok THEN LgThrew(m.fs, m.acc, FsErrorMsg, lr)
       ELSE LET w == writeFile(m.fs, resolvedPath, action.content)
            IN LgDone([w EXCEPT !.acc = m.acc \cup w.acc], "bytesWritten", lr)

LgMoveFile(action, config, f, lr) ==
    LET sourcePath == validatePath(config, action.sourcePath).path
        destPath == validatePath(config, action.destinationPath).path
        ac == [op |-> "access", path |-> sourcePath]
    IN IF ~Exists(f, sourcePath) THEN LgThrew(f, {ac}, FsErrorMsg, lr)
       ELSE LET m == mkdirRecursive(f, dirname(destPath))
            IN IF ~m.ok THEN LgThrew(m.fs, {ac} \cup m.acc, FsErrorMsg, lr)
               ELSE LET r == rename(m.fs, sourcePath, destPath)
                    IN LgDone([r EXCEPT !.acc = {ac} \cup m.acc \cup r.acc],
                              "moved", lr)

NoContentMsg == <<"No content available to extract from. Run readFiles first.">>
PlaywrightDisabledMsg == <<"Playwright tasks are not enabled">>
PlaywrightMissingMsg == <<"Playwright tasks not yet implemented">>
UnknownActionMsg(a) == <<"Unknown action type: ", a>>

\* the actions of executeAction whose handler awaits the filesystem
FsActions == {"readFiles", "createFile", "writeFile", "moveFile"}

\* the paths a handler hands to validatePath, in the order it does
PathsOf(action) ==
    IF action.action = "moveFile" THEN <<action.sourcePath, action.destinationPath>>
    ELSE IF action.action \in FsActions THEN <<action.path>>
    ELSE <<>>

\* executeAction up to its first await: <<>> when the handler goes on to the
\* filesystem, else the outcome it settles with at once
\* [ok, output, error]
Immediate(action, config, lr) ==
    IF action.action \in FsActions
    THEN (IF FirstRejected(config, PathsOf(action)) # <<>>
          THEN Some([ok |-> FALSE, output |-> "undefined",
                     error |-> FirstRejected(config, PathsOf(action))])
          ELSE Undef)
    ELSE IF action.action = "extractText"
    THEN (IF ~Truthy(lr)
          THEN Some([ok |-> FALSE, output |-> "undefined", error |-> NoContentMsg])
          ELSE Some([ok |-> TRUE, output |-> "extracted", error |-> <<>>]))
    ELSE IF action.action = "noop"
    THEN Some([ok |-> TRUE, output |-> "noop", error |-> <<>>])
    ELSE IF action.action = "runPlaywrightTask"
    THEN Some([ok |-> FALSE, output |-> "undefined",
               error |-> IF ~config.playwrightEnabled THEN PlaywrightDisabledMsg
                         ELSE PlaywrightMissingMsg])
    ELSE Some([ok |-> FALSE, output |-> "undefined",
               error |-> UnknownActionMsg(action.action)])

\* the filesystem part of executeAction, for an action of FsActions whose
\* paths passed validatePath
executeAction(action, config, f, lr) ==
    CASE action.action = "readFiles" -> LgReadFiles(action, config, f, lr)
      [] action.action = "createFile" -> LgCreateFile(action, config, f, lr)
      [] action.action = "writeFile" -> LgWriteFile(action, config, f, lr)
      [] action.action = "moveFile" -> LgMoveFile(action, config, f, lr)

TimedOutMsg(stepIndex) == <<"Step ", ToString(stepIndex), " timed out">>

\* the StepResult of executeStep
StepResult(stepIndex, action, ok, output, error) ==
    [stepIndex |-> stepIndex, action |-> action.action, success |-> ok,
     output |-> output, error |-> error]

(***************************************************************************)
(* The plans that are run.                                                 *)
(***************************************************************************)
Workspace == <<NameW>>

\* the filesystem every run starts from: the workspace /w holding the file a
\* and the empty file e, and beside it the directory /wx holding a file
InitFS ==
    {DirNode(<<>>), DirNode(<<NameW>>), FileNode(<<NameW, NameA>>, "x"),
     FileNode(<<NameW, <<"e">>>>, ""),
     DirNode(<<NameWX>>), FileNode(<<NameWX, NameA>>, "s")}

NoParams ==
    [path |-> Undef, filename |-> Undef, content |-> Undef, folders |-> Undef,
     pattern |-> Undef, destination |-> Undef, outputPath |-> Undef]

TaskStep(type, params, rc) ==
    [type |-> type, description |-> type, params |-> params,
     requiresConfirmation |-> rc]

InA == Rel(<<NameA>>)
InB == Rel(<<NameB>>)
OutWXA == Rel(<<DotDot, NameWX, NameA>>)
OutWXB == Rel(<<DotDot, NameWX, NameB>>)
OutWX == Rel(<<DotDot, NameWX>>)
OutTop == Rel(<<DotDot, NameB>>)
AbsWXB == Abs(<<NameWX, NameB>>)

\* the steps a cowork plan is drawn from
TaskSteps ==
    {TaskStep("readFiles", [NoParams EXCEPT !.path = Some(Rel(<<Dot>>))], Undef),
     TaskStep("readFiles", [NoParams EXCEPT !.path = Some(OutWX)], Some(TRUE)),
     TaskStep("readFiles", [NoParams EXCEPT !.path = Some(InB)], Undef),
     TaskStep("writeFile", [NoParams EXCEPT !.filename = Some(InB), !.content = Some("c")], Undef),
     TaskStep("writeFile", [NoParams EXCEPT !.filename = Some(OutWXB), !.content = Some("c")], Undef),
     TaskStep("createFolder", [NoParams EXCEPT !.folders = Some(<<InB, OutTop>>)], Undef),
     TaskStep("renameFile", [NoParams EXCEPT !.pattern = Some(InA), !.destination = Some(OutWXB)], Undef),
     TaskStep("renameFile", [NoParams EXCEPT !.pattern = Some(InB), !.destination = Some(InA)], Undef),
     TaskStep("extractData", NoParams, Undef),
     TaskStep("generateReport", NoParams, Some(FALSE)),
     TaskStep("generateReport", [NoParams EXCEPT !.outputPath = Some(AbsWXB)], Undef),
     TaskStep("browserAction", NoParams, Undef),
     TaskStep("browserAction", NoParams, Some(TRUE))}

Action(action, path, pattern, content, sourcePath, destinationPath) ==
    [action |-> action, path |-> path, pattern |-> pattern, content |-> content,
     sourcePath |-> sourcePath, destinationPath |-> destinationPath]

NoPath == Rel(<<>>)

\* the actions a workspace plan is drawn from
Actions ==
    {Action("readFiles", InA, Undef, "", NoPath, NoPath),
     Action("readFiles", Rel(<<<<"e">>>>), Undef, "", NoPath, NoPath),
     Action("readFiles", Rel(<<Dot>>), Some(Rel(<<DotDot>>)), "", NoPath, NoPath),
     Action("readFiles", OutWXA, Undef, "", NoPath, NoPath),
     Action("readFiles", OutTop, Undef, "", NoPath, NoPath),
     Action("createFile", InA, Undef, "n", NoPath, NoPath),
     Action("createFile", Rel(<<NameB, NameA>>), Undef, "n", NoPath, NoPath),
     Action("writeFile", InA, Undef, "", NoPath, NoPath),
     Action("moveFile", NoPath, Undef, "", InA, InB),
     Action("moveFile", NoPath, Undef, "", InB, OutTop),
     Action("extractText", NoPath, Undef, "", NoPath, NoPath),
     Action("noop", NoPath, Undef, "", NoPath, NoPath),
     Action("runPlaywrightTask", NoPath, Undef, "", NoPath, NoPath),
     Action("deleteFile", InA, Undef, "", NoPath, NoPath)}

(***************************************************************************)
(* Spec: one run of a plan, by Executor.executePlan (impl "workspace") or  *)
(* by CoworkLite.run (impl "cowork"). A handler's filesystem work is one   *)
(* step of the model, taken when the awaited operation completes.          *)
(***************************************************************************)
Last(q) == q[Len(q)]

RunInit ==
    /\ impl \in {"workspace", "cowork"}
    /\ execConfig \in [workingDirectory : {Workspace}, allowedPaths : {<<>>},
                       maxSteps : {1, MaxPlanLen}, playwrightEnabled : {FALSE}]
    /\ plan \in SeqsUpTo(IF impl = "workspace" THEN Actions ELSE TaskSteps, MaxPlanLen)
    /\ dryRun \in (IF impl = "cowork" THEN BOOLEAN ELSE {FALSE})
    /\ nodeEnv \in (IF impl = "cowork" THEN {"test", "production"} ELSE {"none"})
    /\ (impl = "cowork" => execConfig.maxSteps = MaxPlanLen)
    /\ fs = InitFS
    /\ pc = "start"
    /\ idx = 1
    /\ results = <<>>
    /\ lastRead = Undef
    /\ logs = <<>>
    /\ deadline = FALSE
    /\ orphans = {}
    /\ started = <<>>
    /\ dispatched = <<>>
    /\ touched = {}
    /\ refused = {}
    /\ fsBefore = InitFS
    /\ SbIdle
    /\ VIdle
    /\ SfIdle /\ RmIdle /\ MoreIdle

\* where executePlan's for loop goes after results.push(result) for step i
\* of n: it returns on a failed result and after the last step
executePlanNext(success, i, n) ==
    IF ~success THEN "done" ELSE IF i >= n THEN "done" ELSE "loop"

\* a loop without the break
runLoopNext_NoBreak(success, i, n) ==
    IF i >= n THEN "done" ELSE "loop"

\* where the for loop of CoworkLite.run goes after results.push(result): it
\* breaks on a failed result
runLoopNext(success, i, n) ==
    IF ~success THEN "done" ELSE IF i >= n THEN "done" ELSE "loop"

Finish(r, nextpc) ==
    /\ results' = Append(results, r)
    /\ pc' = nextpc
    /\ idx' = IF r.success THEN idx + 1 ELSE idx

\* ---- Executor.executePlan (src/src/executor/index.ts)
\* an executePlan that resets the context before it validates the step count
LgStart_ClearsFirst ==
    /\ impl = "workspace" /\ pc = "start"
    /\ lastRead' = Undef
    /\ pc' = IF Len(plan) > execConfig.maxSteps THEN "threw"
             ELSE IF Len(plan) = 0 THEN "done" ELSE "loop"
    /\ UNCHANGED <<impl, execConfig, plan, dryRun, nodeEnv, fs, idx, results, logs,
                   deadline, orphans, started, dispatched, touched, refused, fsBefore, sbVars, vVars,
                   sfVars, rmVars, moreVars>>

LgStart ==
    /\ impl = "workspace" /\ pc = "start"
    /\ IF Len(plan) > execConfig.maxSteps
       THEN pc' = "threw" /\ UNCHANGED lastRead
       ELSE /\ lastRead' = Undef
            /\ pc' = IF Len(plan) = 0 THEN "done" ELSE "loop"
    /\ UNCHANGED <<impl, execConfig, plan, dryRun, nodeEnv, fs, idx, results, logs,
                   deadline, orphans, started, dispatched, touched, refused, fsBefore, sbVars, vVars,
                   sfVars, rmVars, moreVars>>

\* executeStep up to the race: the handler settles at once or awaits the
\* filesystem
LgStep ==
    /\ impl = "workspace" /\ pc = "loop"
    /\ fsBefore' = fs
    /\ LET action == plan[idx]
           imm == Immediate(action, execConfig, lastRead)
       IN /\ started' = Append(started, idx)
          /\ dispatched' = Append(dispatched, idx)
          /\ deadline' = FALSE
          /\ IF imm # Undef
             THEN Finish(StepResult(idx - 1, action, imm[1].ok, imm[1].output, imm[1].error),
                         executePlanNext(imm[1].ok, idx, Len(plan)))
             ELSE pc' = "running" /\ UNCHANGED <<results, idx>>
    /\ UNCHANGED <<impl, execConfig, plan, dryRun, nodeEnv, fs, lastRead, logs,
                   orphans, touched, refused, sbVars, vVars,
                   sfVars, rmVars, moreVars>>

\* the handler's promise settles first
LgComplete ==
    /\ impl = "workspace" /\ pc = "running"
    /\ LET action == plan[idx]
           h == executeAction(action, execConfig, fs, lastRead)
       IN /\ fs' = h.fs
          /\ lastRead' = h.lastRead
          /\ touched' = touched \cup h.acc
          /\ Finish(StepResult(idx - 1, action, h.ok, h.output, h.error),
                    executePlanNext(h.ok, idx, Len(plan)))
    /\ UNCHANGED <<impl, execConfig, plan, dryRun, nodeEnv, logs, deadline, orphans,
                   started, dispatched, refused, fsBefore, sbVars, vVars,
                   sfVars, rmVars, moreVars>>

\* the setTimeout callback rejects first: the step fails, the handler goes on
LgTimeout ==
    /\ impl = "workspace" /\ pc = "running"
    /\ deadline' = TRUE
    /\ orphans' = orphans \cup {[stepIndex |-> idx - 1, action |-> plan[idx]]}
    /\ Finish(StepResult(idx - 1, plan[idx], FALSE, "undefined", TimedOutMsg(idx - 1)),
              executePlanNext(FALSE, idx, Len(plan)))
    /\ UNCHANGED <<impl, execConfig, plan, dryRun, nodeEnv, fs, lastRead, logs,
                   started, dispatched, touched, refused, fsBefore, sbVars, vVars,
                   sfVars, rmVars, moreVars>>

\* a handler that lost the race completes
LgOrphan ==
    /\ impl = "workspace"
    /\ \E o \in orphans :
         LET h == executeAction(o.action, execConfig, fs, lastRead)
         IN /\ fs' = h.fs
            /\ lastRead' = h.lastRead
            /\ touched' = touched \cup h.acc
            /\ orphans' = orphans \ {o}
    /\ UNCHANGED <<impl, execConfig, plan, dryRun, nodeEnv, pc, idx, results, logs,
                   deadline, started, dispatched, refused, fsBefore, sbVars, vVars,
                   sfVars, rmVars, moreVars>>

\* ---- CoworkLite.run (src/unnamed/part_004) over Executor.executeStep
\* ---- (src/unnamed/part_009)
CwStart ==
    /\ impl = "cowork" /\ pc = "start"
    /\ pc' = IF Len(plan) = 0 THEN "done" ELSE "loop"
    /\ UNCHANGED <<impl, execConfig, plan, dryRun, nodeEnv, fs, idx, results, lastRead,
                   logs, deadline, orphans, started, dispatched, touched, refused, fsBefore, sbVars, vVars,
                   sfVars, rmVars, moreVars>>

\* a log entry that leaves the step's description out
FailLog_NoDescription(step, msg) == <<"X ">> \o handleError(msg).message

\* context.logs.push(`X ${step.description}: ${coworkError.message}`)
FailLog(step, msg) == <<"X ", step.description, ": ">> \o handleError(msg).message

\* the switch of executeStep: a known type starts its handler, any other type
\* throws, which the catch turns into a failed result and a log entry
Dispatch(step) ==
    IF step.type \in KnownStepTypes
    THEN /\ pc' = "running"
         /\ dispatched' = Append(dispatched, idx)
         /\ UNCHANGED <<results, idx, logs>>
    ELSE /\ Finish(FailureResult(idx, RunHandler(step, Workspace, fs).error),
                   runLoopNext(FALSE, idx, Len(plan)))
         /\ logs' = Append(logs, FailLog(step, RunHandler(step, Workspace, fs).error))
         /\ UNCHANGED dispatched

\* executeStep up to its first await
CwBegin ==
    /\ impl = "cowork" /\ pc = "loop"
    /\ fsBefore' = fs
    /\ LET step == plan[idx]
           entry == StepEntry(step, dryRun)
       IN /\ started' = Append(started, idx)
          /\ deadline' = FALSE
          /\ CASE entry = "dryRun" ->
                    /\ Finish(DryRunResult(idx), runLoopNext(TRUE, idx, Len(plan)))
                    /\ UNCHANGED <<logs, dispatched>>
               [] entry = "confirm" ->
                    /\ pc' = "confirm"
                    /\ UNCHANGED <<results, idx, logs, dispatched>>
               [] OTHER -> Dispatch(step)
    /\ UNCHANGED <<impl, execConfig, plan, dryRun, nodeEnv, fs, lastRead, orphans,
                   touched, refused, sbVars, vVars,
                   sfVars, rmVars, moreVars>>

\* requestConfirmation resolves: with the user's answer when it prompts
CwConfirm ==
    /\ impl = "cowork" /\ pc = "confirm"
    /\ LET step == plan[idx]
       IN \E response \in (IF promptsUser(step, nodeEnv) THEN Answers ELSE {""}) :
            IF requestConfirmation(step, nodeEnv, response)
            THEN Dispatch(step) /\ UNCHANGED refused
            ELSE /\ Finish(CancelledResult(idx), runLoopNext(FALSE, idx, Len(plan)))
                 /\ refused' = refused \cup {idx}
                 /\ UNCHANGED <<logs, dispatched>>
    /\ UNCHANGED <<impl, execConfig, plan, dryRun, nodeEnv, fs, lastRead, deadline,
                   orphans, started, touched, fsBefore, sbVars, vVars,
                   sfVars, rmVars, moreVars>>

\* the handler's awaited work completes
CwComplete ==
    /\ impl = "cowork" /\ pc = "running"
    /\ LET step == plan[idx]
           h == RunHandler(step, Workspace, fs)
       IN /\ fs' = h.fs
          /\ touched' = touched \cup h.acc
          /\ IF h.ok
             THEN /\ Finish(SuccessResult(idx, h.output), runLoopNext(TRUE, idx, Len(plan)))
                  /\ UNCHANGED logs
             ELSE /\ Finish(FailureResult(idx, h.error), runLoopNext(FALSE, idx, Len(plan)))
                  /\ logs' = Append(logs, FailLog(step, h.error))
    /\ UNCHANGED <<impl, execConfig, plan, dryRun, nodeEnv, lastRead, deadline, orphans,
                   started, dispatched, refused, fsBefore, sbVars, vVars,
                   sfVars, rmVars, moreVars>>

\* the time step.timeout allows the step passes while its handler is still
\* awaited: nothing in executeStep waits for it
CwDeadline ==
    /\ impl = "cowork" /\ pc = "running" /\ ~deadline
    /\ deadline' = TRUE
    /\ UNCHANGED <<impl, execConfig, plan, dryRun, nodeEnv, fs, pc, idx, results,
                   lastRead, logs, orphans, started, dispatched, touched, refused, fsBefore, sbVars, vVars,
                   sfVars, rmVars, moreVars>>

Next ==
    \/ LgStart
    \/ LgStep
    \/ LgComplete
    \/ LgTimeout
    \/ LgOrphan
    \/ CwStart
    \/ CwBegin
    \/ CwConfirm
    \/ CwComplete
    \/ CwDeadline

Spec == RunInit /\ [][Next]_vars

(***************************************************************************)
(* Plan validator (src/src/planner/validator.ts). An untyped value is      *)
(* [t, v]: its JavaScript type and its text.                               *)
(***************************************************************************)
JsUndefined == [t |-> "undefined", v |-> ""]
JsString(str) == [t |-> "string", v |-> str]
JsBoolean(b) == [t |-> "boolean", v |-> IF b THEN "true" ELSE "false"]
JsNumber(str) == [t |-> "number", v |-> str]

\* z.string().min(1), z.string(), z.string().optional(), z.boolean()
\* a z.string() in place of z.string().min(1)
IsNonEmptyString_AnyString(x) == x.t = "string"
IsNonEmptyString(x) == x.t = "string" /\ x.v # ""
IsString(x) == x.t = "string"
IsOptionalString(x) == x.t \in {"string", "undefined"}
IsBoolean(x) == x.t = "boolean"
\* z.number().optional()
IsOptionalNumber(x) == x.t \in {"number", "undefined"}
\* z.string().url().optional(), over the strings the model draws
IsOptionalUrl(x) == x.t = "undefined" \/ (x.t = "string" /\ x.v = "http://h/")

ActionTypes ==
    {"readFiles", "createFile", "writeFile", "moveFile", "extractText",
     "runPlaywrightTask", "noop"}

PlaywrightTaskTypes == {"fetchPage", "extractData", "fillForm"}

\* ActionSchema: the union of the seven action schemas; a step matches when
\* it matches the schema of its action literal
MatchesActionSchema(a) ==
    /\ a.action.t = "string"
    /\ IsOptionalString(a.description)
    /\ CASE a.action.v = "readFiles" ->
              IsNonEmptyString(a.path) /\ IsOptionalString(a.pattern)
         [] a.action.v = "createFile" ->
              IsNonEmptyString(a.path) /\ IsString(a.content)
         [] a.action.v = "writeFile" ->
              IsNonEmptyString(a.path) /\ IsString(a.content)
         [] a.action.v = "moveFile" ->
              IsNonEmptyString(a.sourcePath) /\ IsNonEmptyString(a.destinationPath)
         [] a.action.v = "extractText" -> IsNonEmptyString(a.instructions)
         [] a.action.v = "runPlaywrightTask" ->
              /\ a.taskType.t = "string" /\ a.taskType.v \in PlaywrightTaskTypes
              /\ IsOptionalUrl(a.url)
         [] a.action.v = "noop" -> TRUE
         [] OTHER -> FALSE

\* the issues TaskPlanSchema.parse collects: one per failing field, each named
\* by its path
ZodIssues(candidate) ==
    (IF IsNonEmptyString(candidate.task) THEN {} ELSE {<<"task">>})
    \cup (IF Len(candidate.steps) >= 1 THEN {} ELSE {<<"steps">>})
    \cup {<<"steps", ToString(k)>> :
            k \in {j \in 1..Len(candidate.steps) : ~MatchesActionSchema(candidate.steps[j])}}
    \cup (IF IsBoolean(candidate.requiresConfirmation) THEN {}
          ELSE {<<"requiresConfirmation">>})
    \cup (IF IsOptionalNumber(candidate.estimatedSteps) THEN {}
          ELSE {<<"estimatedSteps">>})

InvalidStructureMsg == "Invalid task plan structure"

\* validatePlan: the parsed plan, or a PlanValidationError carrying the issues
validatePlan(candidate) ==
    IF ZodIssues(candidate) = {}
    THEN [state |-> "ok", message |-> <<>>, details |-> {}]
    ELSE [state |-> "error", message |-> <<InvalidStructureMsg>>,
          details |-> ZodIssues(candidate)]

isDestructiveAction(a) ==
    a.action.v = "writeFile" \/ a.action.v = "moveFile" \/ a.action.v = "createFile"

hasDestructiveActions(p) == \E k \in 1..Len(p.steps) : isDestructiveAction(p.steps[k])

validateConfirmationFlag(p) ==
    (p.requiresConfirmation.v = "true") = hasDestructiveActions(p)

validateStepLimits(p, maxSteps) == Len(p.steps) <= maxSteps

StepLimitText == "Plan exceeds maximum step limit of "
StepLimitMsg(maxSteps) == <<StepLimitText, ToString(maxSteps)>>
ConfirmationFlagMsg ==
    <<"Plan confirmation flag does not match presence of destructive actions">>

\* the default of validateTaskPlan's maxSteps parameter
DefaultMaxSteps == 50

validateTaskPlan(candidate, maxStepsArg) ==
    LET maxSteps == OrElse(maxStepsArg, DefaultMaxSteps)
        validated == validatePlan(candidate)
    IN IF validated.state = "error" THEN validated
       ELSE IF ~validateStepLimits(candidate, maxSteps)
       THEN [state |-> "error", message |-> StepLimitMsg(maxSteps), details |-> {}]
       ELSE IF ~validateConfirmationFlag(candidate)
       THEN [state |-> "error", message |-> ConfirmationFlagMsg, details |-> {}]
       ELSE [state |-> "ok", message |-> <<>>, details |-> {}]

(***************************************************************************)
(* SpecValidator: validateTaskPlan applied to every candidate plan of at   *)
(* most MaxVSteps steps drawn from CandidateSteps, under every maxSteps    *)
(* argument up to MaxLimit and under the default.                          *)
(***************************************************************************)
Candidate(action, path, content, sourcePath, destinationPath) ==
    [action |-> JsString(action), path |-> path, pattern |-> JsUndefined,
     content |-> content, sourcePath |-> sourcePath,
     destinationPath |-> destinationPath, instructions |-> JsUndefined,
     taskType |-> JsUndefined, description |-> JsUndefined,
     url |-> JsUndefined, extra |-> JsUndefined]

CandidateSteps ==
    {Candidate("readFiles", JsString("p"), JsUndefined, JsUndefined, JsUndefined),
     Candidate("writeFile", JsString("p"), JsString(""), JsUndefined, JsUndefined),
     Candidate("createFile", JsString("p"), JsString("c"), JsUndefined, JsUndefined),
     Candidate("moveFile", JsUndefined, JsUndefined, JsString("p"), JsString("q")),
     Candidate("noop", JsUndefined, JsUndefined, JsUndefined, JsUndefined),
     Candidate("readFiles", JsString(""), JsUndefined, JsUndefined, JsUndefined),
     Candidate("deleteFile", JsString("p"), JsUndefined, JsUndefined, JsUndefined)}

CandidatePlans ==
    [task : {JsString("t"), JsString("")},
     steps : SeqsUpTo(CandidateSteps, MaxVSteps),
     requiresConfirmation : {JsBoolean(TRUE), JsBoolean(FALSE), JsUndefined},
     estimatedSteps : {JsUndefined},
     extra : {JsUndefined}]

MaxStepsArgs == {Undef} \cup {Some(m) : m \in 1..MaxLimit}

NoVerdict == [state |-> "none", message |-> <<>>, details |-> {}]

VInit ==
    /\ vPlan \in CandidatePlans
    /\ vMaxSteps \in MaxStepsArgs
    /\ vResult = NoVerdict
    /\ SbIdle
    /\ SfIdle /\ RmIdle /\ MoreIdle
    /\ RunIdle

\* one call of validateTaskPlan
VValidate ==
    /\ vResult.state = "none"
    /\ vResult' = validateTaskPlan(vPlan, vMaxSteps)
    /\ UNCHANGED <<vPlan, vMaxSteps, sbVars, runVars, sfVars, rmVars, moreVars>>

\* the same plan validated again under another limit
VAgain ==
    /\ vResult.state # "none"
    /\ vMaxSteps' \in MaxStepsArgs
    /\ vResult' = NoVerdict
    /\ UNCHANGED <<vPlan, sbVars, runVars, sfVars, rmVars, moreVars>>

VNext == VValidate \/ VAgain

SpecValidator == VInit /\ [][VNext]_vars

(***************************************************************************)
(* SpecSchema: validatePlan applied to untyped candidates of at most       *)
(* MaxSchemaSteps steps drawn from SchemaSteps: steps of every action,     *)
(* with required fields missing, empty or ill-typed, with optional fields  *)
(* ill-typed, and with fields no schema names.                             *)
(***************************************************************************)
Step(action) ==
    Candidate(action, JsUndefined, JsUndefined, JsUndefined, JsUndefined)

SchemaSteps ==
    {[Step("readFiles") EXCEPT !.path = JsString("p")],
     [Step("readFiles") EXCEPT !.path = JsString("p"), !.extra = JsString("z")],
     [Step("readFiles") EXCEPT !.path = JsString("p"), !.pattern = JsNumber("5")],
     [Step("readFiles") EXCEPT !.path = JsNumber("5")],
     [Step("createFile") EXCEPT !.path = JsString("p"), !.content = JsString("")],
     [Step("createFile") EXCEPT !.path = JsString("p")],
     [Step("writeFile") EXCEPT !.path = JsString(""), !.content = JsString("c")],
     [Step("moveFile") EXCEPT !.sourcePath = JsString("p"), !.destinationPath = JsString("q")],
     [Step("moveFile") EXCEPT !.sourcePath = JsString("p")],
     [Step("extractText") EXCEPT !.instructions = JsString("i")],
     [Step("extractText") EXCEPT !.instructions = JsString("")],
     [Step("runPlaywrightTask") EXCEPT !.taskType = JsString("fetchPage"),
                                       !.url = JsString("http://h/")],
     [Step("runPlaywrightTask") EXCEPT !.taskType = JsString("fetchPage"),
                                       !.url = JsString("h")],
     [Step("runPlaywrightTask") EXCEPT !.taskType = JsString("click")],
     Step("noop"),
     [Step("noop") EXCEPT !.description = JsNumber("5")],
     Step("deleteFile"),
     [Step("noop") EXCEPT !.action = JsUndefined]}

SchemaPlans ==
    [task : {JsString("t"), JsString(""), JsUndefined},
     steps : SeqsUpTo(SchemaSteps, MaxSchemaSteps),
     requiresConfirmation : {JsBoolean(FALSE), JsString("true"), JsUndefined},
     estimatedSteps : {JsUndefined, JsNumber("2"), JsString("2")},
     extra : {JsUndefined, JsString("z")}]

SchemaInit ==
    /\ vPlan \in SchemaPlans
    /\ vMaxSteps = Undef
    /\ vResult = NoVerdict
    /\ SbIdle
    /\ SfIdle /\ RmIdle /\ MoreIdle
    /\ impl = "none" /\ plan = <<>>
    /\ execConfig = [workingDirectory |-> Workspace, allowedPaths |-> <<>>, maxSteps |-> 0,
                     playwrightEnabled |-> FALSE] /\ dryRun = FALSE /\ nodeEnv = "none"
    /\ fs = InitFS /\ pc = "off" /\ idx = 0 /\ results = <<>> /\ lastRead = <<>>
    /\ logs = <<>> /\ deadline = FALSE /\ orphans = {} /\ started = <<>>
    /\ dispatched = <<>> /\ touched = {} /\ refused = {} /\ fsBefore = InitFS

\* one call of validatePlan
SchemaValidate ==
    /\ vResult.state = "none"
    /\ vResult' = validatePlan(vPlan)
    /\ UNCHANGED <<vPlan, vMaxSteps, sbVars, runVars, sfVars, rmVars, moreVars>>

\* the candidate is amended in one top-level field and validated again
SchemaAgain ==
    /\ vResult.state # "none"
    /\ \E t \in {JsString("t"), JsString("")} : vPlan' = [vPlan EXCEPT !.task = t]
    /\ vResult' = NoVerdict
    /\ UNCHANGED <<vMaxSteps, sbVars, runVars, sfVars, rmVars, moreVars>>

SchemaNext == SchemaValidate \/ SchemaAgain

SpecSchema == SchemaInit /\ [][SchemaNext]_vars

(***************************************************************************)
(* Properties of the plan runners.                                         *)
(***************************************************************************)
Range(q) == {q[k] : k \in 1..Len(q)}
InWorkspace(p) == IsUnder(p, Workspace)
SixStepKinds ==
    {"readFiles", "writeFile", "createFolder", "renameFile", "extractData", "generateReport"}
Awaiting == pc \in {"confirm", "running"}

\* C1: both plan runners start the steps in declared order, one at a time,
\* record exactly one result per executed step, and stop at the first failed
\* step: the results are those of a prefix of the plan, only the last one may
\* have failed, and after a failure no further step is started.
C1_FailFast ==
    impl \in {"workspace", "cowork"} =>
        /\ started = [k \in 1..Len(started) |-> k]
        /\ Len(started) <= Len(plan)
        /\ Len(results) = Len(started) - (IF Awaiting THEN 1 ELSE 0)
        /\ \A k \in 1..Len(results) :
             /\ IF impl = "cowork" THEN results[k].stepId = k
                ELSE results[k].stepIndex = k - 1 /\ results[k].action = plan[k].action
             /\ (k < Len(results) => results[k].success)
        /\ ((results # <<>> /\ ~Last(results).success) => pc = "done")
        /\ ((pc = "done" /\ (results = <<>> \/ Last(results).success))
               => Len(results) = Len(plan))
        /\ (pc \in {"start", "threw"} => started = <<>>)

\* C1 witness: a run that ended on a failed step with a later step never started
C1_Witness ==
    /\ pc = "done"
    /\ results # <<>>
    /\ ~Last(results).success
    /\ Len(results) < Len(plan)
    /\ Len(started) = Len(results)

\* C3: no step handler of the cowork executor reads, creates, writes or
\* renames anything outside context.workspace.
C3_StepsStayInWorkspace ==
    impl = "cowork" => \A a \in touched : InWorkspace(a.path)

\* C4: with context.dryRun every step returns success with no output, no
\* handler is dispatched and the filesystem stays what it was, over the
\* whole sequence of steps.
C4_DryRunFrame ==
    (impl = "cowork" /\ dryRun) =>
        /\ fs = InitFS
        /\ touched = {}
        /\ dispatched = <<>>
        /\ ~Awaiting
        /\ \A k \in 1..Len(results) :
             /\ results[k].success
             /\ results[k].output = "undefined"
             /\ results[k].error = <<>>

\* C4 witness: a dry run that went through a destructive step and a step of
\* unknown type
C4_Witness ==
    /\ impl = "cowork" /\ dryRun
    /\ Len(results) >= 2
    /\ plan[1].type = "writeFile"
    /\ plan[2].type \notin SixStepKinds

\* C5: outside dry-run, a step whose confirmation is required and refused
\* yields success=false with error exactly "User cancelled the operation";
\* no handler is dispatched and the filesystem is unchanged.
C5_RefusedConfirmation ==
    impl = "cowork" =>
        \A k \in refused :
            /\ ~dryRun
            /\ checkStep(plan[k]).requiresConfirmation
            /\ k = Len(results)
            /\ ~results[k].success
            /\ results[k].error = <<"User cancelled the operation">>
            /\ results[k].output = "undefined"
            /\ k \notin Range(dispatched)
            /\ fs = fsBefore
            /\ pc = "done"

\* C5 witness: the confirmation of a writeFile step was refused
C5_Witness ==
    /\ impl = "cowork"
    /\ \E k \in refused : plan[k].type = "writeFile" /\ k <= Len(results)

\* C6 as stated: a step of unknown type fails with "Unknown step type:
\* {type}" in every execution mode, and no handler is dispatched.
C6_UnknownTypeAlwaysFails ==
    impl = "cowork" =>
        \A k \in 1..Len(results) :
            plan[k].type \notin SixStepKinds =>
                /\ ~results[k].success
                /\ results[k].error = <<"Unknown step type: ", plan[k].type>>
                /\ k \notin Range(dispatched)

\* C6 amended: a step of unknown type never has a handler dispatched and
\* never touches the filesystem; it fails with "Unknown step type: {type}"
\* when dryRun is false and its confirmation is not refused, returns the
\* dry-run success when dryRun is true, and fails with "User cancelled the
\* operation" when its confirmation is refused.
C6_UnknownTypeOutcome ==
    impl = "cowork" =>
        \A k \in 1..Len(started) :
            plan[k].type \notin SixStepKinds =>
                /\ k \notin Range(dispatched)
                /\ (k = Len(started) => fs = fsBefore /\ pc # "running")
                /\ (k <= Len(results) =>
                      IF dryRun
                      THEN results[k].success /\ results[k].output = "undefined"
                      ELSE IF k \in refused
                      THEN /\ ~results[k].success
                           /\ results[k].error = <<"User cancelled the operation">>
                      ELSE /\ ~results[k].success
                           /\ results[k].error = <<"Unknown step type: ", plan[k].type>>)

\* C6 witness: outside dry-run a step of unknown type failed as unknown
C6_Witness ==
    /\ impl = "cowork" /\ ~dryRun
    /\ \E k \in 1..Len(results) :
         /\ plan[k].type = "browserAction"
         /\ k \notin refused
         /\ results[k].error = <<"Unknown step type: ", "browserAction">>

\* C7: a step whose timeout elapsed before its operation completed is not
\* awaited any longer and is reported failed with a timeout error; a step
\* whose operation completed first reports the operation's own outcome.
C7_TimeoutRace ==
    impl \in {"workspace", "cowork"} =>
        /\ (deadline =>
              /\ pc # "running"
              /\ results # <<>>
              /\ ~Last(results).success
              /\ Last(results).error \in {TimedOutMsg(i) : i \in 0..MaxPlanLen})
        /\ (~deadline =>
              \A k \in 1..Len(results) :
                  results[k].error \notin {TimedOutMsg(i) : i \in 0..MaxPlanLen})

(***************************************************************************)
(* Properties of plan validation.                                          *)
(***************************************************************************)
Validated == vResult.state # "none"
EffectiveMaxSteps == OrElse(vMaxSteps, DefaultMaxSteps)
StructurallyValid(p) == ZodIssues(p) = {}
HasDestructiveStep(p) ==
    \E k \in 1..Len(p.steps) : p.steps[k].action.v \in {"createFile", "writeFile", "moveFile"}
FlagIsTrue(p) == p.requiresConfirmation = JsBoolean(TRUE)
Mentions(message, text) == \E k \in 1..Len(message) : message[k] = text

\* C8: for every structurally valid plan validateConfirmationFlag is true
\* exactly when requiresConfirmation equals "some step is createFile,
\* writeFile or moveFile", and validateTaskPlan fails with a message about
\* the confirmation flag whenever the two differ.
C8_ConfirmationFlagEnforced ==
    (Validated /\ StructurallyValid(vPlan)) =>
        /\ validateConfirmationFlag(vPlan) = (FlagIsTrue(vPlan) = HasDestructiveStep(vPlan))
        /\ (FlagIsTrue(vPlan) # HasDestructiveStep(vPlan) =>
              /\ vResult.state = "error"
              /\ vResult.message = ConfirmationFlagMsg)

\* C9: for every plan and every maximum m the step count is accepted exactly
\* when steps.length <= m, and a plan with more than m steps makes
\* validateTaskPlan fail with a message containing "maximum step limit".
C9_StepLimitEnforced ==
    Validated =>
        /\ validateStepLimits(vPlan, EffectiveMaxSteps) = (Len(vPlan.steps) <= EffectiveMaxSteps)
        /\ (Len(vPlan.steps) > EffectiveMaxSteps =>
              /\ vResult.state = "error"
              /\ Mentions(vResult.message, "Plan exceeds maximum step limit of "))
        /\ (Len(vPlan.steps) <= EffectiveMaxSteps =>
              ~Mentions(vResult.message, "Plan exceeds maximum step limit of "))

\* the rules a candidate violates, and the rules an error speaks of
Violations(p, m) ==
    (IF StructurallyValid(p) THEN {} ELSE {"structure"})
    \cup (IF Len(p.steps) > m THEN {"stepLimit"} ELSE {})
    \cup (IF IsBoolean(p.requiresConfirmation) /\ FlagIsTrue(p) # HasDestructiveStep(p)
          THEN {"confirmationFlag"} ELSE {})
Reported(r) ==
    (IF Mentions(r.message, "Invalid task plan structure") \/ r.details # {}
     THEN {"structure"} ELSE {})
    \cup (IF Mentions(r.message, "Plan exceeds maximum step limit of ")
          THEN {"stepLimit"} ELSE {})
    \cup (IF r.message = ConfirmationFlagMsg THEN {"confirmationFlag"} ELSE {})

\* C10: the error validateTaskPlan raises for a candidate that violates
\* several rules at once reports every one of the violations.
C10_AllViolationsReported ==
    vResult.state = "error" =>
        Violations(vPlan, EffectiveMaxSteps) \subseteq Reported(vResult)

(***************************************************************************)
(* Properties of validatePlan.                                             *)
(***************************************************************************)
RecognisedTags ==
    {"readFiles", "createFile", "writeFile", "moveFile", "extractText",
     "runPlaywrightTask", "noop"}

\* the fields an action requires to be non-empty strings, and to be strings
NonEmptyFields(tag) ==
    CASE tag = "readFiles" -> {"path"}
      [] tag = "createFile" -> {"path"}
      [] tag = "writeFile" -> {"path"}
      [] tag = "moveFile" -> {"sourcePath", "destinationPath"}
      [] tag = "extractText" -> {"instructions"}
      [] OTHER -> {}
StringFields(tag) == IF tag \in {"createFile", "writeFile"} THEN {"content"} ELSE {}

HasRequiredFields(a) ==
    /\ a.action.t = "string" /\ a.action.v \in RecognisedTags
    /\ \A f \in NonEmptyFields(a.action.v) : a[f].t = "string" /\ a[f].v # ""
    /\ \A f \in StringFields(a.action.v) : a[f].t = "string"
    /\ (a.action.v = "runPlaywrightTask" =>
          a.taskType \in {JsString("fetchPage"), JsString("extractData"), JsString("fillForm")})

\* the optional fields a step carries are well-typed
OptionalFieldsWellTyped(a) ==
    /\ a.description.t \in {"undefined", "string"}
    /\ (a.action.v = "readFiles" => a.pattern.t \in {"undefined", "string"})
    /\ (a.action.v = "runPlaywrightTask" => a.url \in {JsUndefined, JsString("http://h/")})

StatedConditions(p) ==
    /\ p.task.t = "string" /\ p.task.v # ""
    /\ Len(p.steps) >= 1
    /\ \A k \in 1..Len(p.steps) : HasRequiredFields(p.steps[k])
    /\ p.requiresConfirmation.t = "boolean"

SafetySteps ==
    {TaskStep(type, params, rc) :
        type \in KnownStepTypes \cup {"browserAction", "deleteFile"},
        params \in {NoParams, [NoParams EXCEPT !.path = Some(InA)]},
        rc \in {Undef, Some(TRUE), Some(FALSE)}}

SfInit ==
    /\ sfStep \in SafetySteps
    /\ sfEnv \in {"test", "production"}
    /\ sfCheck = <<>> /\ sfPrompt = <<>> /\ sfConfirmed = "none"
    /\ SbIdle /\ VIdle /\ RunIdle /\ RmIdle /\ MoreIdle

\* one call of checkStep
SfCheckStep ==
    /\ sfCheck = <<>>
    /\ sfCheck' = <<checkStep(sfStep)>>
    /\ UNCHANGED <<sfStep, sfEnv, sfPrompt, sfConfirmed, sbVars, vVars, runVars, rmVars, moreVars>>

\* one call of requestConfirmation, through promptUser when it is reached
SfRequestConfirmation ==
    /\ sfConfirmed = "none"
    /\ \E response \in (IF promptsUser(sfStep, sfEnv) THEN Answers ELSE {""}) :
         /\ sfPrompt' = IF promptsUser(sfStep, sfEnv) THEN <<response>> ELSE <<>>
         /\ sfConfirmed' = IF requestConfirmation(sfStep, sfEnv, response)
                           THEN "true" ELSE "false"
    /\ UNCHANGED <<sfStep, sfEnv, sfCheck, sbVars, vVars, runVars, rmVars, moreVars>>

\* the same step is asked about again
SfAgain ==
    /\ sfConfirmed # "none"
    /\ sfConfirmed' = "none" /\ sfPrompt' = <<>>
    /\ UNCHANGED <<sfStep, sfEnv, sfCheck, sbVars, vVars, runVars, rmVars, moreVars>>

SfNext == SfCheckStep \/ SfRequestConfirmation \/ SfAgain

SpecSafety == SfInit /\ [][SfNext]_vars

(***************************************************************************)
(* Properties of the safety layer.                                         *)
(***************************************************************************)
RiskTable(type) ==
    CASE type = "readFiles" -> [risk |-> "low", destructive |-> FALSE, warnings |-> 0]
      [] type = "extractData" -> [risk |-> "low", destructive |-> FALSE, warnings |-> 0]
      [] type = "generateReport" -> [risk |-> "medium", destructive |-> FALSE, warnings |-> 0]
      [] type = "createFolder" -> [risk |-> "medium", destructive |-> TRUE, warnings |-> 1]
      [] type = "writeFile" -> [risk |-> "high", destructive |-> TRUE, warnings |-> 1]
      [] type = "renameFile" -> [risk |-> "high", destructive |-> TRUE, warnings |-> 1]

\* C12: checkStep depends on step.type and step.requiresConfirmation only,
\* matches the risk table for the six step kinds, and its
\* requiresConfirmation is isDestructive or the explicit override.
C12_RiskTable ==
    sfCheck # <<>> =>
        LET c == sfCheck[1]
        IN /\ (sfStep.type \in SixStepKinds =>
                 /\ c.riskLevel = RiskTable(sfStep.type).risk
                 /\ c.isDestructive = RiskTable(sfStep.type).destructive
                 /\ Len(c.warnings) = RiskTable(sfStep.type).warnings)
           /\ c.requiresConfirmation =
                 (c.isDestructive \/ sfStep.requiresConfirmation = <<TRUE>>)
           /\ \A other \in SafetySteps :
                 (other.type = sfStep.type
                    /\ other.requiresConfirmation = sfStep.requiresConfirmation)
                 => checkStep(other) = c

\* C12 witness: a non-destructive step with the explicit override was checked
C12_Witness ==
    /\ sfCheck # <<>>
    /\ sfStep.type = "readFiles"
    /\ sfStep.requiresConfirmation = <<TRUE>>
    /\ sfCheck[1].requiresConfirmation
    /\ ~sfCheck[1].isDestructive

NeedsConfirmation(step) ==
    \/ step.type \in {"writeFile", "renameFile", "deleteFile", "createFolder"}
    \/ step.requiresConfirmation = <<TRUE>>

\* C13: requestConfirmation is true without a prompt for a step that needs no
\* confirmation; for one that does it is true without reading input under
\* NODE_ENV 'test', and otherwise true exactly when the answer is 'y' or
\* 'yes' in any letter case.
C13_Confirmation ==
    sfConfirmed # "none" =>
        IF ~NeedsConfirmation(sfStep) \/ sfEnv = "test"
        THEN sfConfirmed = "true" /\ sfPrompt = <<>>
        ELSE /\ sfPrompt # <<>>
             /\ (sfConfirmed = "true") <=> (sfPrompt[1] \in {"y", "Y", "yes", "YES", "Yes"})

\* C13 witness: an upper-case YES was read and accepted
C13_Witness ==
    /\ sfConfirmed = "true"
    /\ sfPrompt = <<"YES">>
    /\ sfEnv = "production"

(***************************************************************************)
(* Recovery manager (src/src/error/recovery.ts) over the errors of         *)
(* src/src/error/types.ts. Messages are sequences of their fragments; an   *)
(* absent context.step or context.file is "".                              *)
(***************************************************************************)
\* x || dflt for an optional number: undefined and 0 are both falsy
OrDefault(opt, dflt) == IF opt = Undef \/ opt[1] = 0 THEN dflt ELSE opt[1]

RecoveryStrategy(action, maxRetries, retryDelay, fallbackMethod, requiresConfirmation) ==
    [action |-> action, maxRetries |-> maxRetries, retryDelay |-> retryDelay,
     fallbackMethod |-> fallbackMethod, requiresConfirmation |-> requiresConfirmation]

\* fallbackMethod: "none" when undefined, else how the callable settles
NoStrategy == RecoveryStrategy("none", Undef, Undef, "none", Undef)
AbortStrategy == RecoveryStrategy("abort", Undef, Undef, "none", Undef)

ErrorContext(operation, step) == [operation |-> operation, step |-> step, file |-> ""]

ErrorOf(name, message, category, severity, context, recoveryStrategy, retryable) ==
    [name |-> name, message |-> message, category |-> category, severity |-> severity,
     context |-> context, recoveryStrategy |-> recoveryStrategy, retryable |-> retryable]

\* new Error(message)
PlainError(message) ==
    ErrorOf("Error", message, "none", "none", ErrorContext("", ""), NoStrategy, FALSE)

\* new FileSystemError(message, context, cause, recoveryStrategy)
FileSystemError(message, context, recoveryStrategy) ==
    ErrorOf("FileSystemError", message, "file_system", "medium", context,
            OrElse(recoveryStrategy,
                   RecoveryStrategy("retry", Some(3), Some(1000), "none", Some(FALSE))),
            TRUE)

\* ErrorFactory.createError for the categories recovery.ts passes, system
\* and user_input: the default branch of its switch
\* a factory whose errors of the other categories are to be retried
createError_Retry(message, category, context, severity, retryable) ==
    ErrorOf("CoworkError", message, category, severity, context,
            RecoveryStrategy("retry", Undef, Undef, "none", Undef), retryable)

createError(message, category, context, severity, retryable) ==
    ErrorOf("CoworkError", message, category, severity, context, AbortStrategy, retryable)

\* a manager that looks at the error's own strategy only
getStrategy_BuiltIn(error, custom) == error.recoveryStrategy

\* a manager that uses a registered strategy whatever name it was registered for
getStrategy_AnyName(error, custom) ==
    IF \E n \in DOMAIN custom : custom[n] # Undef
    THEN custom[CHOOSE n \in DOMAIN custom : custom[n] # Undef][1]
    ELSE error.recoveryStrategy

getStrategy(error, custom) ==
    IF custom[error.name] # Undef THEN custom[error.name][1] ELSE error.recoveryStrategy

NonEmpty(part) == part # ""

getRetryKey(error) ==
    SelectSeq(<<error.category, error.context.operation, error.context.step,
                error.context.file>>, NonEmpty)

Min(a, b) == IF a <= b THEN a ELSE b

\* a backoff that is never capped
calculateRetryDelay_NoCap(attempt, baseDelay, random) ==
    baseDelay * 2^attempt + (random * baseDelay * 2^attempt) \div (10 * RandomGrain)

\* Math.random() is random / RandomGrain; delays are whole milliseconds
calculateRetryDelay(attempt, baseDelay, random) ==
    LET exponentialDelay == baseDelay * 2^attempt
        jitter == (random * exponentialDelay) \div (10 * RandomGrain)
    IN Min(exponentialDelay + jitter, 30000)

\* how a call settles: what it returned or threw, the counters it leaves, the
\* delay it waited, and how often it invoked the failed operation and the
\* fallback callable
Returned(value, counters, fallbackCalls) ==
    [kind |-> "returned", value |-> value, error |-> <<>>, counters |-> counters,
     waited |-> <<>>, operationCalls |-> 0, fallbackCalls |-> fallbackCalls]
Thrown(error, counters, fallbackCalls) ==
    [kind |-> "threw", value |-> "undefined", error |-> <<error>>, counters |-> counters,
     waited |-> <<>>, operationCalls |-> 0, fallbackCalls |-> fallbackCalls]

retryOriginalOperation(error, counters) ==
    Thrown(PlainError(<<"Retry mechanism not implemented for operation: ",
                        error.context.operation>>), counters, 0)

performRetry(error, strategy, retryKey, counters, random) ==
    LET currentRetries == counters[retryKey]
        maxRetries == OrDefault(strategy.maxRetries, 3)
    IN IF currentRetries >= maxRetries
       THEN Thrown(createError(<<"Maximum retries (", ToString(maxRetries),
                                 ") exceeded for ", error.context.operation>>,
                               "system", error.context, "high", FALSE), counters, 0)
       ELSE LET retryDelay == calculateRetryDelay(currentRetries,
                                   OrDefault(strategy.retryDelay, 1000), random)
                bumped == [counters EXCEPT ![retryKey] = currentRetries + 1]
            IN [retryOriginalOperation(error, bumped) EXCEPT !.waited = <<retryDelay>>]

FallbackError == "Error: fallback failed"

\* a message that leaves the fallback's error out
FallbackFailedMsg_Bare(operation, fallbackError) ==
    <<"Fallback method failed for ", operation>>

FallbackFailedMsg(operation, fallbackError) ==
    <<"Fallback method failed for ", operation, ": ", fallbackError>>

performFallback(error, strategy, counters) ==
    IF strategy.fallbackMethod = "none"
    THEN Thrown(createError(<<"No fallback method available for ", error.context.operation>>,
                            "system", error.context, "high", FALSE), counters, 0)
    ELSE IF strategy.fallbackMethod = "resolves"
    THEN Returned("fallback result", counters, 1)
    ELSE Thrown(createError(FallbackFailedMsg(error.context.operation, FallbackError),
                            "system", error.context, "critical", FALSE), counters, 1)

\* it prints the message and answers false, whatever the user would say
promptUserConfirmation(error, strategy) == FALSE

requestUserIntervention(error, strategy, counters) ==
    IF Boolean(strategy.requiresConfirmation) /\ ~promptUserConfirmation(error, strategy)
    THEN Thrown(createError(<<"User cancelled operation ", error.context.operation>>,
                            "user_input", error.context, "medium", FALSE), counters, 0)
    ELSE Thrown(error, counters, 0)

clearRetryCounters(counters) == [k \in DOMAIN counters |-> 0]

performRestart(error, strategy, counters) ==
    retryOriginalOperation(error, clearRetryCounters(counters))

attemptRecovery(error, custom, counters, random) ==
    LET strategy == getStrategy(error, custom)
        retryKey == getRetryKey(error)
    IN CASE strategy.action = "retry" ->
                performRetry(error, strategy, retryKey, counters, random)
         [] strategy.action = "fallback" -> performFallback(error, strategy, counters)
         [] strategy.action = "user_intervention" ->
                requestUserIntervention(error, strategy, counters)
         [] strategy.action = "abort" -> Thrown(error, counters, 0)
         [] strategy.action = "ignore" -> Returned("null", counters, 0)
         [] strategy.action = "restart" -> performRestart(error, strategy, counters)
         [] OTHER -> Thrown(PlainError(<<"Unknown recovery action: ", strategy.action>>),
                            counters, 0)

canRecover(error, custom, counters) ==
    LET strategy == getStrategy(error, custom)
    IN IF strategy.action = "retry"
            /\ counters[getRetryKey(error)] >= OrDefault(strategy.maxRetries, 3)
       THEN FALSE
       ELSE ~(strategy.action = "fallback" /\ strategy.fallbackMethod = "none")

(***************************************************************************)
(* The error classes and ErrorFactory.createError in full                  *)
(* (src/src/error/types.ts). A strategy's userMessage is left out.         *)
(***************************************************************************)
\* a constructor whose retryable defaults to false
CoworkError_NotRetryable(message, category, severity, context, recoveryStrategy, retryable) ==
    ErrorOf("CoworkError", message, category, severity, context, recoveryStrategy,
            OrElse(retryable, FALSE))

\* new CoworkError(message, category, severity, context, recoveryStrategy, {retryable})
CoworkError(message, category, severity, context, recoveryStrategy, retryable) ==
    ErrorOf("CoworkError", message, category, severity, context, recoveryStrategy,
            OrElse(retryable, recoveryStrategy.action = "retry"))

Named(name, error) == [error EXCEPT !.name = name]

ConfigurationError(message, context, recoveryStrategy) ==
    Named("ConfigurationError",
          CoworkError(message, "configuration", "medium", context,
                      OrElse(recoveryStrategy,
                             RecoveryStrategy("user_intervention", Undef, Undef, "none",
                                              Some(FALSE))),
                      Undef))

AIProviderError(message, context, recoveryStrategy) ==
    Named("AIProviderError",
          CoworkError(message, "ai", "high", context,
                      OrElse(recoveryStrategy,
                             RecoveryStrategy("fallback", Undef, Undef, "none", Some(FALSE))),
                      Some(TRUE)))

PlanningError(message, context, recoveryStrategy) ==
    Named("PlanningError",
          CoworkError(message, "planning", "high", context,
                      OrElse(recoveryStrategy,
                             RecoveryStrategy("fallback", Undef, Undef, "none", Some(FALSE))),
                      Undef))

ExecutionError(message, context) ==
    Named("ExecutionError",
          CoworkError(message, "execution", "high", context,
                      RecoveryStrategy("user_intervention", Undef, Undef, "none", Some(TRUE)),
                      Some(FALSE)))

SafetyError(message, context, recoveryStrategy) ==
    Named("SafetyError",
          CoworkError(message, "safety", "critical", context,
                      OrElse(recoveryStrategy,
                             RecoveryStrategy("abort", Undef, Undef, "none", Some(FALSE))),
                      Undef))

ValidationError(message, context) ==
    Named("ValidationError",
          CoworkError(message, "validation", "medium", context,
                      RecoveryStrategy("user_intervention", Undef, Undef, "none", Some(FALSE)),
                      Undef))

NetworkError(message, context) ==
    Named("NetworkError",
          CoworkError(message, "network", "high", context,
                      RecoveryStrategy("retry", Some(5), Some(2000), "none", Some(FALSE)),
                      Some(TRUE)))

ErrorCategory ==
    {"system", "configuration", "planning", "execution", "safety", "ai", "file_system",
     "network", "validation", "user_input"}

\* the options argument of createError; code is left out
ErrorOptions(severity, recoveryStrategy, retryable) ==
    [severity |-> severity, recoveryStrategy |-> recoveryStrategy, retryable |-> retryable]

\* ErrorFactory.createError(message, category, context, options)
ErrorFactory_createError(message, category, context, options) ==
    CASE category = "configuration" ->
            ConfigurationError(message, context, options.recoveryStrategy)
      [] category = "ai" -> AIProviderError(message, context, options.recoveryStrategy)
      [] category = "file_system" ->
            FileSystemError(message, context, options.recoveryStrategy)
      [] category = "planning" -> PlanningError(message, context, options.recoveryStrategy)
      [] category = "execution" -> ExecutionError(message, context)
      [] category = "safety" -> SafetyError(message, context, options.recoveryStrategy)
      [] category = "validation" -> ValidationError(message, context)
      [] category = "network" -> NetworkError(message, context)
      [] OTHER -> CoworkError(message, category, OrElse(options.severity, "medium"), context,
                              OrElse(options.recoveryStrategy, AbortStrategy),
                              options.retryable)

(***************************************************************************)
(* SpecRecovery: operations fail with FileSystemErrors carrying every      *)
(* kind of recovery strategy, the caller hands each to attemptRecovery and *)
(* custom strategies are registered in between.                            *)
(***************************************************************************)
RetryStrategies ==
    {RecoveryStrategy("retry", maxRetries, retryDelay, "none", Some(FALSE)) :
        maxRetries \in {Undef} \cup {Some(n) : n \in 0..MaxRetries},
        retryDelay \in {Undef, Some(0), Some(20000)}}

RmStrategies ==
    RetryStrategies
    \cup {RecoveryStrategy("fallback", Undef, Undef, f, Some(FALSE)) :
             f \in {"none", "resolves", "rejects"}}
    \cup {RecoveryStrategy("user_intervention", Undef, Undef, "none", rc) :
             rc \in {Undef, Some(TRUE), Some(FALSE)}}
    \cup {RecoveryStrategy(action, Undef, Undef, "none", Some(FALSE)) :
             action \in {"abort", "ignore", "restart", "skip"}}

RmErrors ==
    {FileSystemError(<<"ENOENT">>, ErrorContext("read", step), strategy) :
        step \in {"", "s1"}, strategy \in {Undef} \cup {Some(st) : st \in RmStrategies}}
    \cup {ValidationError(<<"Invalid plan">>, ErrorContext("parse", ""))}

ErrorNames == {"FileSystemError", "ValidationError"}
CustomStrategies ==
    {RecoveryStrategy(action, Undef, Undef, "none", Some(FALSE)) :
        action \in {"ignore", "restart"}}
RetryKeys == {getRetryKey(e) : e \in RmErrors}

RmInit ==
    /\ customStrategies = [n \in ErrorNames |-> Undef]
    /\ retryCounters = [k \in RetryKeys |-> 0]
    /\ rmError = <<>> /\ rmOutcome = <<>> /\ rmPrev = <<>> /\ rmCan = <<>>
    /\ rmRegistered = [n \in ErrorNames |-> <<>>]
    /\ SbIdle /\ VIdle /\ RunIdle /\ SfIdle /\ MoreIdle

\* registerCustomStrategy(errorType, strategy)
RmRegister ==
    /\ rmError = <<>>
    /\ \E n \in ErrorNames, st \in CustomStrategies :
         /\ customStrategies' = [customStrategies EXCEPT ![n] = Some(st)]
         /\ rmRegistered' = [rmRegistered EXCEPT ![n] = <<st>>]
    /\ UNCHANGED <<retryCounters, rmError, rmOutcome, rmPrev, rmCan, sbVars, vVars, runVars,
                   sfVars, moreVars>>

\* an operation of the caller fails
RmFail ==
    /\ rmError = <<>>
    /\ \E e \in RmErrors : rmError' = <<e>>
    /\ UNCHANGED <<rmRegistered, customStrategies, retryCounters, rmOutcome, rmPrev, rmCan, sbVars, vVars,
                   runVars, sfVars, moreVars>>

\* one call of attemptRecovery(error), until its promise settles; the user at
\* the terminal would confirm or would not
RmAttemptRecovery ==
    /\ rmError # <<>> /\ rmOutcome = <<>>
    /\ \E random \in 0..(RandomGrain - 1), wouldConfirm \in BOOLEAN :
         LET settled == attemptRecovery(rmError[1], customStrategies, retryCounters, random)
         IN /\ (settled.waited = <<>> => random = 0)
            /\ (getStrategy(rmError[1], customStrategies).action # "user_intervention"
                  => ~wouldConfirm)
            /\ retryCounters' = settled.counters
            /\ rmOutcome' = <<[settled |-> settled, before |-> retryCounters,
                               wouldConfirm |-> wouldConfirm]>>
    /\ UNCHANGED <<rmRegistered, customStrategies, rmError, rmPrev, rmCan, sbVars, vVars, runVars, sfVars, moreVars>>

\* the caller asks canRecover(error) before it pays for a recovery
RmCanRecover ==
    /\ rmError # <<>> /\ rmOutcome = <<>> /\ rmCan = <<>>
    /\ rmCan' = <<[answer |-> canRecover(rmError[1], customStrategies, retryCounters),
                   custom |-> customStrategies, before |-> retryCounters,
                   registered |-> rmRegistered]>>
    /\ UNCHANGED <<rmRegistered, customStrategies, retryCounters, rmError, rmOutcome, rmPrev, sbVars, vVars,
                   runVars, sfVars, moreVars>>

\* the caller has dealt with the outcome
RmHandled ==
    /\ rmOutcome # <<>>
    /\ rmError' = <<>> /\ rmOutcome' = <<>> /\ rmCan' = <<>>
    /\ rmPrev' = IF rmOutcome[1].settled.waited # <<>>
                 THEN <<[key |-> getRetryKey(rmError[1]),
                         strategy |-> getStrategy(rmError[1], customStrategies),
                         attempt |-> rmOutcome[1].before[getRetryKey(rmError[1])],
                         delay |-> rmOutcome[1].settled.waited[1]]>>
                 ELSE rmPrev
    /\ UNCHANGED <<rmRegistered, customStrategies, retryCounters, sbVars, vVars, runVars, sfVars, moreVars>>

RmNext == RmRegister \/ RmFail \/ RmCanRecover \/ RmAttemptRecovery \/ RmHandled

SpecRecovery == RmInit /\ [][RmNext]_vars

(***************************************************************************)
(* Properties of the recovery manager. They speak of the call that has     *)
(* just settled: its error, the strategy in force, the counters before.    *)
(***************************************************************************)
Settled == rmOutcome # <<>>
TheError == rmError[1]
InForce ==
    IF customStrategies[TheError.name] # <<>>
    THEN customStrategies[TheError.name][1]
    ELSE TheError.recoveryStrategy
Under(action) == Settled /\ InForce.action = action
Out == rmOutcome[1].settled
Before == rmOutcome[1].before
TheKey == getRetryKey(TheError)
Budget == IF InForce.maxRetries = <<>> THEN 3 ELSE InForce.maxRetries[1]
IsTerminalSystemError(e) ==
    e # <<>> /\ e[1].category = "system" /\ ~e[1].retryable /\ e[1].name = "CoworkError"

\* C14: under a retry strategy with maxRetries n (3 when absent) the counter
\* of the key never exceeds n, a call is granted a retry and adds one to the
\* counter exactly while the counter is below n, and every later call throws
\* a terminal system error and leaves the counter alone.
C14_RetryBudget ==
    Under("retry") =>
        /\ IF Before[TheKey] < Budget
           THEN /\ Out.waited # <<>>
                /\ retryCounters = [Before EXCEPT ![TheKey] = Before[TheKey] + 1]
           ELSE /\ Out.waited = <<>>
                /\ Out.kind = "threw" /\ IsTerminalSystemError(Out.error)
                /\ retryCounters = Before
        /\ (Before[TheKey] <= Budget => retryCounters[TheKey] <= Budget)

BaseInForce ==
    IF InForce.retryDelay = <<>> \/ InForce.retryDelay = <<0>> THEN 1000
    ELSE InForce.retryDelay[1]
Exponential == BaseInForce * 2^(Before[TheKey])
Granted == Under("retry") /\ Out.waited # <<>>

\* C15 as stated: the delay before the k-th granted retry lies between
\* base * 2^k and base * 2^k * 1.1 and is at most 30000 ms.
C15_BackoffStated ==
    Granted =>
        /\ Exponential <= Out.waited[1]
        /\ 10 * Out.waited[1] <= 11 * Exponential
        /\ Out.waited[1] <= 30000

\* C15 amended: the delay before the k-th granted retry is base * 2^k plus a
\* jitter of at most 10%, capped at 30000 ms (base being retryDelay, or 1000
\* when retryDelay is absent or 0): it lies between min(base * 2^k, 30000)
\* and min(base * 2^k * 1.1, 30000), and it is not less than the delay of
\* the retry of the same key and strategy granted one counter value earlier.
C15_Backoff ==
    Granted =>
        /\ Min(Exponential, 30000) <= Out.waited[1]
        /\ 10 * Out.waited[1] <= Min(11 * Exponential, 300000)
        /\ Out.waited[1] <= 30000
        /\ ((/\ rmPrev # <<>>
             /\ rmPrev[1].key = TheKey
             /\ rmPrev[1].strategy = InForce
             /\ rmPrev[1].attempt + 1 = Before[TheKey])
               => rmPrev[1].delay <= Out.waited[1])

\* C15 witness: the third retry of a filesystem error with its built-in
\* strategy (base 1000) waited about 4000 ms, after one of about 2000 ms
C15_Witness ==
    /\ Granted
    /\ TheError.recoveryStrategy.retryDelay = <<1000>>
    /\ customStrategies["FileSystemError"] = <<>>
    /\ Before[TheKey] = 2
    /\ Out.waited[1] \in 4000..4400
    /\ rmPrev # <<>> /\ rmPrev[1].key = TheKey /\ rmPrev[1].delay \in 2000..2200

\* C16: a granted retry re-invokes the failed operation, once, after the
\* delay, and attemptRecovery settles as that invocation does.
C16_RetryReinvokes ==
    Granted =>
        /\ Out.operationCalls = 1
        /\ (Out.kind = "threw" => Out.error[1].name # "Error")

C18_UserIntervention ==
    Under("user_intervention") =>
        /\ Out.kind = "threw"
        /\ retryCounters = Before
        /\ IF InForce.requiresConfirmation = <<TRUE>> /\ ~rmOutcome[1].wouldConfirm
           THEN /\ Out.error[1].category = "user_input"
                /\ ~Out.error[1].retryable
           ELSE Out.error = <<TheError>>

\* C19: abort throws the very error it was given and ignore returns null;
\* neither invokes the operation or a fallback, waits, or changes a counter.
C19_AbortIgnore ==
    (Under("abort") \/ Under("ignore")) =>
        /\ IF InForce.action = "abort"
           THEN Out.kind = "threw" /\ Out.error = <<TheError>>
           ELSE Out.kind = "returned" /\ Out.value = "null" /\ Out.error = <<>>
        /\ Out.operationCalls = 0 /\ Out.fallbackCalls = 0 /\ Out.waited = <<>>
        /\ retryCounters = Before

\* C19 witness: an error was ignored under a registered strategy while a
\* retry counter stood above zero
C19_Witness ==
    /\ Under("ignore")
    /\ TheError.recoveryStrategy.action = "retry"
    /\ Out.kind = "returned"
    /\ \E k \in RetryKeys : retryCounters[k] > 0

\* C20: restart clears the counter of every key, then re-invokes the failed
\* operation exactly once; afterwards canRecover holds again for every
\* retry-strategy error.
C20_Restart ==
    Under("restart") =>
        /\ \A k \in RetryKeys : retryCounters[k] = 0
        /\ Out.operationCalls = 1
        /\ \A e \in RmErrors :
              getStrategy(e, customStrategies).action = "retry"
                 => canRecover(e, customStrategies, retryCounters)

(***************************************************************************)
(* canRecover against attemptRecovery, in the state in which it was asked. *)
(***************************************************************************)
Asked == rmCan # <<>>
StrategyAsked == getStrategy(TheError, rmCan[1].custom)
BudgetOf(strategy) == IF strategy.maxRetries = <<>> THEN 3 ELSE strategy.maxRetries[1]
BudgetExhausted ==
    StrategyAsked.action = "retry" /\ rmCan[1].before[TheKey] >= BudgetOf(StrategyAsked)
NoFallbackAttached ==
    StrategyAsked.action = "fallback" /\ StrategyAsked.fallbackMethod = "none"
EscalatesAtOnce ==
    \A random \in 0..(RandomGrain - 1) :
        LET o == attemptRecovery(TheError, rmCan[1].custom, rmCan[1].before, random)
        IN /\ o.kind = "threw" /\ IsTerminalSystemError(o.error)
           /\ o.waited = <<>> /\ o.fallbackCalls = 0 /\ o.counters = rmCan[1].before

\* C21: canRecover answers false exactly when the strategy in force is retry
\* with the budget of the error's key used up, or fallback without a
\* callable; asking changes no counter; and for retry and fallback strategies
\* the answer is false exactly when attemptRecovery in the same state would
\* throw a terminal error at once, without a retry or a fallback call.
C21_CanRecover ==
    Asked =>
        /\ rmCan[1].answer = ~(BudgetExhausted \/ NoFallbackAttached)
        /\ (~Settled => retryCounters = rmCan[1].before)
        /\ (StrategyAsked.action \in {"retry", "fallback"}
              => (rmCan[1].answer = FALSE <=> EscalatesAtOnce))

(***************************************************************************)
(* SpecTaxonomy: createError is called for every category, with and        *)
(* without an explicit strategy, severity and retryable option.            *)
(***************************************************************************)
ExplicitStrategies ==
    {RecoveryStrategy("retry", Some(1), Some(500), "none", Some(FALSE)),
     RecoveryStrategy("fallback", Undef, Undef, "resolves", Some(FALSE)),
     RecoveryStrategy("ignore", Undef, Undef, "none", Undef)}

EfCalls ==
    [category : ErrorCategory,
     options : {ErrorOptions(severity, strategy, retryable) :
                   severity \in {Undef, Some("critical")},
                   strategy \in {Undef} \cup {Some(st) : st \in ExplicitStrategies},
                   retryable \in {Undef, Some(TRUE), Some(FALSE)}}]

EfInit ==
    /\ efCall = <<>> /\ efError = <<>>
    /\ SbIdle /\ VIdle /\ RunIdle /\ SfIdle /\ RmIdle /\ CcIdle /\ CliIdle /\ IlIdle /\ PlIdle /\ KsIdle /\ EsIdle /\ ErIdle /\ LogIdle

\* a caller is about to report a failure
EfFail ==
    /\ efCall = <<>>
    /\ \E c \in EfCalls : efCall' = <<c>>
    /\ UNCHANGED <<efError, efOthers>>

\* ErrorFactory.createError(message, category, context, options)
EfCreateError ==
    /\ efCall # <<>> /\ efError = <<>>
    /\ efError' = <<ErrorFactory_createError(<<"failed">>, efCall[1].category,
                                             ErrorContext("op", ""), efCall[1].options)>>
    /\ UNCHANGED <<efCall, efOthers>>

\* the error has been consumed
EfAgain ==
    /\ efError # <<>>
    /\ efCall' = <<>> /\ efError' = <<>>
    /\ UNCHANGED <<efOthers>>

EfNext == EfFail \/ EfCreateError \/ EfAgain

SpecTaxonomy == EfInit /\ [][EfNext]_vars

Created == efError # <<>>
NoExplicitStrategy == efCall[1].options.recoveryStrategy = Undef
IsRetryOf(strategy, maxRetries, retryDelay) ==
    /\ strategy.action = "retry"
    /\ strategy.maxRetries = Some(maxRetries) /\ strategy.retryDelay = Some(retryDelay)

\* C22 as stated: without an explicit strategy the error carries the action
\* of the taxonomy table, network and ai errors a fallback; and without an
\* explicit retryable option the error is retryable exactly when its action
\* is retry.
C22_DefaultDispositionStated ==
    Created =>
        LET category == efCall[1].category
            e == efError[1]
        IN /\ NoExplicitStrategy =>
                CASE category \in {"validation", "execution"} ->
                        e.recoveryStrategy.action = "user_intervention"
                  [] category \in {"safety", "system"} -> e.recoveryStrategy.action = "abort"
                  [] category = "file_system" -> IsRetryOf(e.recoveryStrategy, 3, 1000)
                  [] category \in {"network", "ai"} -> e.recoveryStrategy.action = "fallback"
                  [] OTHER -> TRUE
           /\ IF efCall[1].options.retryable = Undef
              THEN e.retryable = (e.recoveryStrategy.action = "retry")
              ELSE e.retryable = efCall[1].options.retryable[1]

\* C22 amended: network errors retry, at most 5 times from a 2 s base; ai
\* errors fall back; ai, filesystem and network errors are retryable and
\* execution errors are not, whatever the caller asks; system and user-input
\* errors take the caller's retryable option; every other error is
\* retryable exactly when its action is retry.
C22_DefaultDisposition ==
    Created =>
        LET category == efCall[1].category
            e == efError[1]
        IN /\ NoExplicitStrategy =>
                CASE category \in {"validation", "execution"} ->
                        e.recoveryStrategy.action = "user_intervention"
                  [] category \in {"safety", "system"} -> e.recoveryStrategy.action = "abort"
                  [] category = "file_system" -> IsRetryOf(e.recoveryStrategy, 3, 1000)
                  [] category = "network" -> IsRetryOf(e.recoveryStrategy, 5, 2000)
                  [] category = "ai" -> e.recoveryStrategy.action = "fallback"
                  [] OTHER -> TRUE
           /\ e.retryable =
                CASE category \in {"ai", "file_system", "network"} -> TRUE
                  [] category = "execution" -> FALSE
                  [] category \in {"system", "user_input"}
                        /\ efCall[1].options.retryable # Undef ->
                        efCall[1].options.retryable[1]
                  [] OTHER -> e.recoveryStrategy.action = "retry"

\* C22 witness: a network error created without an explicit strategy
C22_Witness ==
    /\ Created /\ NoExplicitStrategy
    /\ efCall[1].category = "network"
    /\ efError[1].recoveryStrategy.action = "retry" /\ efError[1].retryable

(***************************************************************************)
(* Registered strategies against the registrations made so far.            *)
(***************************************************************************)
WithStrategy(error, strategy) == [error EXCEPT !.recoveryStrategy = strategy]
NoneRegistered == [n \in ErrorNames |-> Undef]
Effective(error, registered) ==
    IF registered[error.name] # <<>> THEN registered[error.name][1]
    ELSE error.recoveryStrategy
\* what a settled call did, apart from the identity of the error it threw
Shape(o) ==
    [kind |-> o.kind, value |-> o.value, counters |-> o.counters, waited |-> o.waited,
     operationCalls |-> o.operationCalls, fallbackCalls |-> o.fallbackCalls,
     message |-> IF o.error = <<>> THEN <<>> ELSE o.error[1].message,
     category |-> IF o.error = <<>> THEN "" ELSE o.error[1].category]

\* C23: attemptRecovery and canRecover treat an error exactly as a manager
\* without registrations treats the same error carrying the strategy last
\* registered for its type name, or its own strategy when none was
\* registered for that name, whatever is registered for other names.
C23_CustomOverrides ==
    /\ Settled =>
          \E random \in 0..(RandomGrain - 1) :
              Shape(Out) = Shape(attemptRecovery(
                                    WithStrategy(TheError, Effective(TheError, rmRegistered)),
                                    NoneRegistered, Before, random))
    /\ Asked =>
          rmCan[1].answer = canRecover(
                                WithStrategy(TheError, Effective(TheError, rmCan[1].registered)),
                                NoneRegistered, rmCan[1].before)

\* C23 witness: a validation error was ignored under the strategy registered
\* for its name, after canRecover was asked, while another strategy is
\* registered for filesystem errors
C23_Witness ==
    /\ Settled /\ Asked
    /\ TheError.name = "ValidationError"
    /\ rmRegistered["ValidationError"] # <<>>
    /\ rmRegistered["ValidationError"][1].action = "ignore"
    /\ rmRegistered["FileSystemError"] # <<>>
    /\ rmRegistered["FileSystemError"][1].action = "restart"
    /\ Out.kind = "returned"

(***************************************************************************)
(* SpecConcurrent: several callers hand errors with one retry key and one  *)
(* retry strategy to the same manager. attemptRecovery and performRetry    *)
(* run without suspension from the lookup of the counter to                *)
(* `await this.delay(..)` (src/src/error/recovery.ts:16-22, 81-102); a     *)
(* caller is suspended there while others run.                             *)
(***************************************************************************)
Callers == 1..MaxCallers

CcErrors ==
    {FileSystemError(<<"ENOENT">>, ErrorContext("read", ""), Some(strategy)) :
        strategy \in RetryStrategies}

CcInit ==
    /\ customStrategies = [n \in ErrorNames |-> Undef]
    /\ retryCounters = [k \in RetryKeys |-> 0]
    /\ \E e \in CcErrors : rmError = <<e>>
    /\ rmOutcome = <<>> /\ rmPrev = <<>> /\ rmCan = <<>> /\ rmRegistered = <<>>
    /\ ccPc = [c \in Callers |-> "idle"] /\ ccGranted = 0
    /\ SbIdle /\ VIdle /\ RunIdle /\ SfIdle /\ EfIdle /\ CliIdle /\ IlIdle /\ PlIdle /\ KsIdle /\ EsIdle /\ ErIdle /\ LogIdle

\* attemptRecovery(error) up to its first suspension
CcCall(c) ==
    /\ ccPc[c] = "idle"
    /\ LET o == attemptRecovery(rmError[1], customStrategies, retryCounters, 0)
       IN /\ retryCounters' = o.counters
          /\ ccPc' = [ccPc EXCEPT ![c] = IF o.waited # <<>> THEN "delay" ELSE "escalated"]
          /\ ccGranted' = IF o.waited # <<>> THEN ccGranted + 1 ELSE ccGranted
    /\ UNCHANGED <<customStrategies, rmError, rmOutcome, rmPrev, rmCan, rmRegistered, ccOthers>>

\* the delay is over: retryOriginalOperation runs and the call rejects
CcResume(c) ==
    /\ ccPc[c] = "delay"
    /\ ccPc' = [ccPc EXCEPT ![c] = "threw"]
    /\ UNCHANGED <<rmVars, ccGranted, ccOthers>>

\* the caller's operation fails again with the same error
CcAgain(c) ==
    /\ ccPc[c] \in {"escalated", "threw"}
    /\ ccPc' = [ccPc EXCEPT ![c] = "idle"]
    /\ UNCHANGED <<rmVars, ccGranted, ccOthers>>

CcNext == \E c \in Callers : CcCall(c) \/ CcResume(c) \/ CcAgain(c)

SpecConcurrent == CcInit /\ [][CcNext]_vars

\* C24: however the calls interleave, the counter of the key equals the
\* number of retries granted (no increment is lost) and that number never
\* exceeds the strategy's maxRetries (3 when absent).
C24_ConcurrentCounter ==
    ccPc # <<>> =>
        /\ retryCounters[TheKey] = ccGranted
        /\ ccGranted <= BudgetOf(TheError.recoveryStrategy)

(***************************************************************************)
(* SpecCli: the cowork-lite process of src/unnamed/part_004. One           *)
(* JavaScript thread: main runs without interruption up to an await, and   *)
(* the continuation of loadConfiguration, which the constructor starts and *)
(* does not await, can run only while main is suspended.                   *)
(***************************************************************************)
Goals == {"organize this folder", "generate a summary report", "read the notes", ""}
WorkspaceArgs == {"./receipts", "/w", ""}
CliArgLists ==
    {<<>>} \cup {<<g>> : g \in Goals}
    \cup {<<g, w>> : g \in Goals, w \in WorkspaceArgs}
    \cup {<<g, w, "--dry-run">> : g \in Goals, w \in WorkspaceArgs}

PlannerUnsetMsg == <<"Cannot read properties of undefined (reading 'createPlan')">>

CliInit ==
    /\ cliArgs \in CliArgLists /\ cliPc = "start"
    /\ cliPlanner = "unset" /\ cliLoad = "none"
    /\ cliThrown = <<>> /\ cliResults = <<>> /\ cliStdout = FALSE /\ cliStderr = <<>>
    /\ cliExit = <<>>
    /\ SbIdle /\ VIdle /\ RunIdle /\ SfIdle /\ RmIdle /\ EfIdle /\ CcIdle /\ IlIdle /\ PlIdle /\ KsIdle /\ EsIdle /\ ErIdle /\ LogIdle

\* main with fewer than two arguments: usage, process.exit(1)
CliUsage ==
    /\ cliPc = "start" /\ Len(cliArgs) < 2
    /\ cliStdout' = TRUE /\ cliExit' = <<1>> /\ cliPc' = "exited"
    /\ UNCHANGED <<cliArgs, cliPlanner, cliLoad, cliThrown, cliResults, cliStderr, cliOthers>>

\* new CoworkLite(): the constructor calls loadConfiguration(), which runs to
\* its `await configManager.load()` and returns; planner is not yet assigned
CliConstruct ==
    /\ cliPc = "start" /\ Len(cliArgs) >= 2
    /\ cliLoad' = "suspended" /\ cliPc' = "constructed"
    /\ UNCHANGED <<cliArgs, cliPlanner, cliThrown, cliResults, cliStdout, cliStderr, cliExit,
                   cliOthers>>

\* cowork.run(goal, workspace, {dryRun}), called by main in the same turn:
\* it reaches `this.planner.createPlan` without an await. With planner
\* unset the call throws a TypeError and the promise of run() rejects.
CliRun ==
    /\ cliPc = "constructed" /\ cliPlanner = "unset"
    /\ cliThrown' = <<PlannerUnsetMsg>> /\ cliPc' = "rejected"
    /\ UNCHANGED <<cliArgs, cliPlanner, cliLoad, cliResults, cliStdout, cliStderr, cliExit,
                   cliOthers>>

\* loadConfiguration resumes while main awaits: planner and executor are set
CliLoaded ==
    /\ cliPc = "rejected" /\ cliLoad = "suspended"
    /\ cliLoad' = "done" /\ cliPlanner' = "set"
    /\ UNCHANGED <<cliArgs, cliPc, cliThrown, cliResults, cliStdout, cliStderr, cliExit,
                   cliOthers>>

\* main's catch: console.error('Error:', error.message); process.exit(1)
CliCatch ==
    /\ cliPc = "rejected"
    /\ cliStderr' = Append(cliStderr, cliThrown[1])
    /\ cliExit' = <<1>> /\ cliPc' = "exited"
    /\ UNCHANGED <<cliArgs, cliPlanner, cliLoad, cliThrown, cliResults, cliStdout, cliOthers>>

CliNext == CliUsage \/ CliConstruct \/ CliRun \/ CliLoaded \/ CliCatch

SpecCli == CliInit /\ [][CliNext]_vars

RunCalled == cliPc \in {"rejected", "exited"} /\ Len(cliArgs) >= 2
Failed(r) == ~r.success

LoopSteps ==
    {Candidate("readFiles", JsString("a"), JsUndefined, JsUndefined, JsUndefined),
     Candidate("createFile", JsString("b"), JsString("n"), JsUndefined, JsUndefined),
     Candidate("writeFile", JsString("a"), JsString(""), JsUndefined, JsUndefined),
     Candidate("moveFile", JsUndefined, JsUndefined, JsString("a"), JsString("b")),
     Candidate("noop", JsUndefined, JsUndefined, JsUndefined, JsUndefined)}

\* what the oracle may answer
LoopCandidates ==
    [task : {JsString("t")},
     steps : SeqsUpTo(LoopSteps, MaxLoopLen),
     requiresConfirmation : {JsBoolean(TRUE), JsBoolean(FALSE), JsUndefined},
     estimatedSteps : {JsUndefined},
     extra : {JsUndefined}]

\* Planner.generatePlan(userTask), given the oracle's output
generatePlan(candidate) ==
    IF validateTaskPlan(candidate, Undef).state = "ok" THEN <<candidate>> ELSE <<>>

\* the validated plan as the executor reads it
PathOfText(x) ==
    IF x.t # "string" THEN NoPath
    ELSE IF x.v = "a" THEN InA ELSE IF x.v = "b" THEN InB ELSE Rel(<<>>)
ActionOfStep(step) ==
    Action(step.action.v, PathOfText(step.path), Undef,
           IF step.content.t = "string" THEN step.content.v ELSE "",
           PathOfText(step.sourcePath), PathOfText(step.destinationPath))
ActionsOfPlan(p) == [k \in 1..Len(p.steps) |-> ActionOfStep(p.steps[k])]

\* a loop that goes on unless the answer is 'n'
proceeds_UnlessNo(confirm) == toLowerCase(confirm) # "n"

\* confirm.toLowerCase() !== 'y' && confirm.toLowerCase() !== 'yes' cancels
proceeds(confirm) == toLowerCase(confirm) = "y" \/ toLowerCase(confirm) = "yes"

LoopConfig ==
    [workingDirectory |-> Workspace, allowedPaths |-> <<>>, maxSteps |-> 50,
     playwrightEnabled |-> FALSE]

IlInit ==
    /\ ilPc = "ask" /\ ilPlan = <<>> /\ ilAnswer = <<>> /\ ilOutcome = "none"
    /\ impl = "workspace" /\ execConfig = LoopConfig
    /\ plan = <<>> /\ dryRun = FALSE /\ nodeEnv = "none"
    /\ fs = InitFS /\ pc = "off" /\ idx = 1 /\ results = <<>> /\ lastRead = Undef
    /\ logs = <<>> /\ deadline = FALSE /\ orphans = {} /\ started = <<>>
    /\ dispatched = <<>> /\ touched = {} /\ refused = {} /\ fsBefore = InitFS
    /\ SbIdle /\ VIdle /\ SfIdle /\ RmIdle /\ EfIdle /\ CcIdle /\ CliIdle /\ PlIdle /\ KsIdle /\ EsIdle /\ ErIdle /\ LogIdle

\* the user answers the task prompt: a task, or nothing or 'exit'; the
\* record of the last plan's run is dropped
IlAsk ==
    /\ ilPc = "ask"
    /\ \E exit \in BOOLEAN : ilPc' = IF exit THEN "closed" ELSE "planning"
    /\ ilPlan' = <<>> /\ ilAnswer' = <<>> /\ ilOutcome' = "none"
    /\ plan' = <<>> /\ pc' = "off" /\ idx' = 1 /\ results' = <<>>
    /\ started' = <<>> /\ dispatched' = <<>> /\ touched' = {} /\ deadline' = FALSE
    /\ fsBefore' = fs
    /\ UNCHANGED <<impl, execConfig, dryRun, nodeEnv, fs, lastRead, logs, orphans, refused,
                   ilOthers>>

\* the loop holds a new plan; with call, executor.executePlan(plan) is called
\* at once
NewPlan(p, call) ==
    /\ plan' = ActionsOfPlan(p) /\ pc' = (IF call THEN "start" ELSE "off")
    /\ idx' = 1 /\ results' = <<>>
    /\ started' = <<>> /\ dispatched' = <<>> /\ touched' = {} /\ deadline' = FALSE
    /\ fsBefore' = fs
    /\ UNCHANGED <<impl, execConfig, dryRun, nodeEnv, fs, lastRead, logs, orphans, refused>>

\* generatePlan settles: it throws, or the plan is shown and then either
\* put to the user or executed
IlPlan ==
    /\ ilPc = "planning"
    /\ \E candidate \in LoopCandidates :
         LET generated == generatePlan(candidate)
         IN IF generated = <<>>
            THEN /\ ilPc' = "ask" /\ ilOutcome' = "rejected"
                 /\ UNCHANGED <<ilPlan, ilAnswer, runVars>>
            ELSE /\ ilPlan' = generated
                 /\ NewPlan(generated[1], generated[1].requiresConfirmation.v # "true")
                 /\ ilPc' = IF generated[1].requiresConfirmation.v = "true"
                            THEN "confirm" ELSE "executing"
                 /\ UNCHANGED <<ilAnswer, ilOutcome>>
    /\ UNCHANGED ilOthers

\* the user answers 'Proceed? (y/n): '
IlConfirm ==
    /\ ilPc = "confirm"
    /\ \E confirm \in Answers :
         /\ ilAnswer' = <<confirm>>
         /\ IF proceeds(confirm)
            THEN ilPc' = "executing" /\ pc' = "start" /\ UNCHANGED ilOutcome
            ELSE ilPc' = "ask" /\ ilOutcome' = "cancelled" /\ UNCHANGED pc
    /\ UNCHANGED <<ilPlan, impl, execConfig, plan, dryRun, nodeEnv, fs, idx, results, lastRead,
                   logs, deadline, orphans, started, dispatched, touched, refused, fsBefore,
                   ilOthers>>

\* executePlan has returned or thrown: the outcome is printed
IlReport ==
    /\ ilPc = "executing" /\ pc \in {"done", "threw"}
    /\ ilPc' = "ask" /\ ilOutcome' = "executed"
    /\ UNCHANGED <<ilPlan, ilAnswer, runVars, ilOthers>>

Executing == ilPc = "executing"

IlNext ==
    \/ IlAsk
    \/ IlPlan
    \/ IlConfirm
    \/ IlReport
    \/ (Executing /\ LgStart)
    \/ (Executing /\ LgStep)
    \/ (Executing /\ LgComplete)
    \/ (Executing /\ Cardinality(orphans) < MaxOrphans /\ LgTimeout)
    \/ LgOrphan

SpecLoop == IlInit /\ [][IlNext]_vars

Affirmative == {"y", "yes"}

\* C26: a plan the loop holds has requiresConfirmation = true if it has a
\* destructive step; a destructive step of it is started only after the
\* user answered y or yes (in any case) to the prompt for this plan; and a
\* plan cancelled by any other answer has started no step, with the loop
\* back at the task prompt.
C26_ConfirmedBeforeDestructive ==
    ilPlan # <<>> =>
        /\ hasDestructiveActions(ilPlan[1]) => ilPlan[1].requiresConfirmation = JsBoolean(TRUE)
        /\ (\E k \in Range(started) : isDestructiveAction(ilPlan[1].steps[k]))
              => (ilAnswer # <<>> /\ toLowerCase(ilAnswer[1]) \in Affirmative)
        /\ (ilAnswer # <<>> /\ toLowerCase(ilAnswer[1]) \notin Affirmative)
              => /\ ilOutcome = "cancelled" /\ ilPc = "ask"
                 /\ started = <<>> /\ results = <<>> /\ pc = "off"

\* C26 witness: a plan with a destructive step was cancelled by an answer
\* that is neither yes nor no
C26_Witness ==
    /\ ilPlan # <<>> /\ hasDestructiveActions(ilPlan[1])
    /\ ilAnswer = <<"ok">> /\ ilOutcome = "cancelled" /\ ilPc = "ask"

(***************************************************************************)
(* SpecPlanner: Planner.createPlan of src/src/planner/index.ts on its      *)
(* rule-based path (no AI planner configured). A goal is a sequence of     *)
(* words; the patterns of generateSteps have no blank in them, so a        *)
(* pattern occurs in the goal exactly when it occurs inside one word.      *)
(***************************************************************************)
GoalWords == {"organize", "Sort", "resort", "extract", "CSV", "report", "Summary", "hello"}

\* the patterns of generateSteps that occur inside a lower-case word
PatternsIn(word) == IF word = "resort" THEN {"sort"} ELSE {word}

\* String.prototype.includes on a goal
includes(str, searchString) == \E i \in DOMAIN str : searchString \in PatternsIn(str[i])

PlannerStep(type, description, requiresConfirmation, timeout) ==
    [type |-> type, description |-> description,
     requiresConfirmation |-> requiresConfirmation, timeout |-> timeout]

generateOrganizationSteps ==
    <<PlannerStep("readFiles", "Scan workspace directory for files", FALSE, 30000),
      PlannerStep("extractData", "Analyze file types and content", FALSE, 60000),
      PlannerStep("createFolder", "Create organized folder structure", TRUE, 10000)>>

generateReportSteps ==
    <<PlannerStep("readFiles", "Read source files for report generation", FALSE, 30000),
      PlannerStep("generateReport", "Generate summary/report from source data", FALSE, 120000),
      PlannerStep("writeFile", "Save generated report", TRUE, 10000)>>

generateExtractionSteps ==
    <<PlannerStep("readFiles", "Scan for data files", FALSE, 30000),
      PlannerStep("extractData", "Extract structured data from files", FALSE, 60000),
      PlannerStep("writeFile", "Export extracted data as CSV", TRUE, 10000)>>

generateSteps(goal) ==
    LET lowerGoal == [i \in DOMAIN goal |-> toLowerCase(goal[i])]
    IN IF includes(lowerGoal, "organize") \/ includes(lowerGoal, "sort")
         THEN generateOrganizationSteps
       ELSE IF includes(lowerGoal, "extract") \/ includes(lowerGoal, "csv")
         THEN generateExtractionSteps
       ELSE IF includes(lowerGoal, "report") \/ includes(lowerGoal, "summary")
         THEN generateReportSteps
       ELSE <<>>

\* steps.reduce((total, step) => total + (step.timeout || 60000), 0)
RECURSIVE estimateDuration(_)
estimateDuration(steps) ==
    IF steps = <<>> THEN 0
    ELSE estimateDuration(SubSeq(steps, 1, Len(steps) - 1))
         + (IF Last(steps).timeout = 0 THEN 60000 ELSE Last(steps).timeout)

\* Array.prototype.slice(0, end), end >= 0
slice(arr, end) == SubSeq(arr, 1, Min(end, Len(arr)))

createPlan(goal, config) ==
    LET steps == generateSteps(goal)
    IN [goal |-> goal,
        steps |-> slice(steps, config.maxSteps),
        estimatedDuration |-> estimateDuration(steps),
        aiGenerated |-> FALSE]

PlInit ==
    /\ plGoal \in SeqsUpTo(GoalWords, MaxGoalWords)
    /\ plConfig \in [maxSteps : 0..MaxPlannerSteps]
    /\ plPlan = <<>>
    /\ SbIdle /\ VIdle /\ RunIdle /\ SfIdle /\ RmIdle /\ EfIdle /\ CcIdle /\ CliIdle /\ IlIdle /\ KsIdle /\ EsIdle /\ ErIdle /\ LogIdle

PlCreatePlan ==
    /\ plPlan = <<>>
    /\ plPlan' = <<createPlan(plGoal, plConfig)>>
    /\ UNCHANGED <<plGoal, plConfig, plOthers>>

\* another planner is constructed and given another goal
PlAgain ==
    /\ plPlan # <<>>
    /\ plGoal' \in SeqsUpTo(GoalWords, MaxGoalWords)
    /\ plConfig' \in [maxSteps : 0..MaxPlannerSteps]
    /\ plPlan' = <<>>
    /\ UNCHANGED plOthers

PlNext == PlCreatePlan \/ PlAgain

SpecPlanner == PlInit /\ [][PlNext]_vars

\* the sum of the timeouts of the steps of a plan
RECURSIVE TimeoutsOf(_)
TimeoutsOf(steps) ==
    IF steps = <<>> THEN 0 ELSE Head(steps).timeout + TimeoutsOf(Tail(steps))

\* C27: a plan createPlan returned on the rule-based path has at most
\* maxSteps steps, and its estimatedDuration is the sum of the timeouts of
\* the steps it contains.
C27_DurationOfPlanSteps ==
    plPlan # <<>> =>
        /\ Len(plPlan[1].steps) <= plConfig.maxSteps
        /\ plPlan[1].estimatedDuration = TimeoutsOf(plPlan[1].steps)

(***************************************************************************)
(* Failed steps and the context log (Spec, the cowork executor).           *)
(***************************************************************************)
IsPrefix(q, r) == Len(q) <= Len(r) /\ SubSeq(r, 1, Len(q)) = q

\* executeStep has just returned a failed result
ReturnsFailure == impl = "cowork" /\ Len(results') = Len(results) + 1 /\ ~Last(results').success

\* context.logs has gained an entry that contains the step's description
GainsEntry ==
    /\ Len(logs') = Len(logs) + 1
    /\ plan[Last(results').stepId].description \in Range(Last(logs'))

AppendOnly == IsPrefix(logs, logs')

\* C28 as stated: every failed result of executeStep has a non-empty error
\* and comes with a new log entry containing the step's description, and
\* context.logs is only ever appended to.
C28_FailureLoggedStated ==
    [][/\ ReturnsFailure => (Last(results').error # <<>> /\ GainsEntry)
       /\ AppendOnly]_vars

\* C28: every failed result of executeStep has a non-empty error; unless the
\* failure is a refused confirmation, it comes with a new log entry
\* containing the step's description; context.logs is only ever appended to.
C28_FailureLogged ==
    [][/\ ReturnsFailure =>
            /\ Last(results').error # <<>>
            /\ Last(results').stepId \notin refused' => GainsEntry
       /\ AppendOnly]_vars

\* C28 witness: a step that was not refused has failed and is in the log
C28_Witness ==
    /\ impl = "cowork" /\ results # <<>> /\ ~Last(results).success
    /\ Last(results).stepId \notin refused
    /\ logs # <<>> /\ plan[Last(results).stepId].description \in Range(Last(logs))

(***************************************************************************)
(* SpecReuse: one Executor of src/src/executor/index.ts whose executePlan  *)
(* is called again and again, so that a call finds the read content and    *)
(* the filesystem the earlier calls have left.                             *)
(***************************************************************************)
ReuseActions ==
    {Action("readFiles", InA, Undef, "", NoPath, NoPath),
     Action("writeFile", InA, Undef, "", NoPath, NoPath),
     Action("createFile", Rel(<<NameB, NameA>>), Undef, "n", NoPath, NoPath),
     Action("noop", NoPath, Undef, "", NoPath, NoPath)}

ReInit ==
    /\ impl = "workspace"
    /\ execConfig \in [workingDirectory : {Workspace}, allowedPaths : {<<>>},
                       maxSteps : {1, MaxReuseLen}, playwrightEnabled : {FALSE}]
    /\ plan \in SeqsUpTo(ReuseActions, MaxReuseLen)
    /\ dryRun = FALSE /\ nodeEnv = "none"
    /\ fs = InitFS /\ pc = "start" /\ idx = 1 /\ results = <<>> /\ lastRead = Undef
    /\ logs = <<>> /\ deadline = FALSE /\ orphans = {} /\ started = <<>>
    /\ dispatched = <<>> /\ touched = {} /\ refused = {} /\ fsBefore = InitFS
    /\ SbIdle /\ VIdle /\ SfIdle /\ RmIdle /\ MoreIdle

\* executePlan has returned or thrown and is called with another plan; the
\* record of the last call is dropped
CalledAgain(actions) ==
    /\ pc \in {"done", "threw"}
    /\ plan' \in SeqsUpTo(actions, MaxReuseLen)
    /\ pc' = "start" /\ idx' = 1 /\ results' = <<>>
    /\ started' = <<>> /\ dispatched' = <<>> /\ touched' = {} /\ deadline' = FALSE
    /\ fsBefore' = fs
    /\ UNCHANGED <<impl, execConfig, dryRun, nodeEnv, fs, lastRead, logs, orphans, refused,
                   sbVars, vVars, sfVars, rmVars, moreVars>>

ReAgain == CalledAgain(ReuseActions)

ReNext ==
    \/ LgStart
    \/ LgStep
    \/ LgComplete
    \/ (Cardinality(orphans) < MaxOrphans /\ LgTimeout)
    \/ LgOrphan
    \/ ReAgain

SpecReuse == ReInit /\ [][ReNext]_vars

TooLong == Len(plan) > execConfig.maxSteps
Called == pc = "start" /\ pc' # "start"

\* C29: executePlan called with more steps than config.maxSteps throws at
\* once, with no filesystem access, the filesystem and the read content as
\* the call found them, and no step of the plan is ever started; with at
\* most maxSteps steps it does not throw, and a plan of exactly maxSteps
\* steps that has ended without a failed step has run all of them.
C29_MaxStepsEnforced ==
    /\ [][Called =>
            IF TooLong
            THEN /\ pc' = "threw" /\ lastRead' = lastRead /\ fs' = fs
                 /\ started' = <<>> /\ results' = <<>> /\ touched' = touched
            ELSE pc' # "threw"]_vars
    /\ [](pc = "threw" => (TooLong /\ started = <<>> /\ results = <<>>))
    /\ []((pc = "done" /\ Len(plan) = execConfig.maxSteps /\ \A k \in DOMAIN results : results[k].success)
             => Len(results) = Len(plan))

\* C29 witness: a call with too many steps has thrown on an executor that
\* holds the content an earlier call has read
C29_Witness == pc = "threw" /\ TooLong /\ lastRead # Undef

(***************************************************************************)
(* createFile steps (Spec, the workspace executor).                        *)
(***************************************************************************)
\* executeStep returns the result of a createFile handler that settled
\* before the timeout
CreateFileSettles ==
    /\ impl = "workspace" /\ pc = "running" /\ plan[idx].action = "createFile"
    /\ Len(results') = Len(results) + 1 /\ ~deadline'

Target == validatePath(execConfig, plan[idx].path).path
MissingParents(f, p) == {q \in Prefixes(dirname(p)) : ~Exists(f, q)}
FileInTheWay(f, p) == \E q \in Prefixes(dirname(p)) : IsFile(f, q)
SaysAlreadyExists(error) == \E i \in DOMAIN error : error[i] = "File already exists: "

ReadBefore(k) == \E j \in 1..(k - 1) : plan[j].action = "readFiles" /\ results[j].success
SaysNoContent(error) ==
    \E i \in DOMAIN error :
        error[i] = "No content available to extract from. Run readFiles first."

\* C31: in one executePlan run, an extractText step succeeds whenever an
\* earlier readFiles step of the run succeeded, whatever was read, and
\* fails with the 'No content available' error when no readFiles step
\* came before it.
C31_ExtractAfterRead ==
    impl = "workspace" =>
        \A k \in DOMAIN results :
            plan[k].action = "extractText" =>
                IF ReadBefore(k) THEN results[k].success
                ELSE ~results[k].success /\ SaysNoContent(results[k].error)

(***************************************************************************)
(* SpecKeys: one recovery manager is handed retryable errors that differ   *)
(* in category, step and file, each with a budget of MaxRetries retries.   *)
(***************************************************************************)
KsStrategy == RecoveryStrategy("retry", Some(MaxRetries), Some(0), "none", Some(FALSE))
KsContexts == {[operation |-> "read", step |-> st, file |-> fl] : st \in {"", "a"}, fl \in {"", "a"}}
KsErrors ==
    {FileSystemError(<<"ENOENT">>, c, Some(KsStrategy)) : c \in KsContexts}
    \cup {PlanningError(<<"no plan">>, c, Some(KsStrategy)) : c \in KsContexts}
KsNoCustom == [n \in {e.name : e \in KsErrors} |-> Undef]

\* the (category, operation, step, file) of an error
TupleOf(error) ==
    <<error.category, error.context.operation, error.context.step, error.context.file>>

KsInit ==
    /\ ksCounters = [k \in {getRetryKey(e) : e \in KsErrors} |-> 0]
    /\ ksGranted = [e \in KsErrors |-> 0]
    /\ SbIdle /\ VIdle /\ RunIdle /\ SfIdle /\ RmIdle /\ EfIdle /\ CcIdle /\ CliIdle /\ IlIdle /\ PlIdle /\ EsIdle /\ ErIdle /\ LogIdle

\* an operation fails with error and the caller hands it to attemptRecovery
KsAttempt(error) ==
    LET out == attemptRecovery(error, KsNoCustom, ksCounters, 0)
    IN /\ ksCounters' = out.counters
       /\ ksGranted' = IF out.waited # <<>>
                       THEN [ksGranted EXCEPT ![error] = @ + 1] ELSE ksGranted
       /\ UNCHANGED ksOthers

\* the manager is dropped for a new one once an error has used up its budget
KsAgain ==
    /\ \E k \in DOMAIN ksCounters : ksCounters[k] >= MaxRetries
    /\ ksCounters' = [k \in DOMAIN ksCounters |-> 0]
    /\ ksGranted' = [e \in KsErrors |-> 0]
    /\ UNCHANGED ksOthers

KsNext == (\E error \in KsErrors : KsAttempt(error)) \/ KsAgain

SpecKeys == KsInit /\ [][KsNext]_vars

\* C32: errors that differ in one of category, operation, step, file have
\* counters of their own: what the manager has counted against an error
\* is the retries it granted to that error, whatever it granted to others.
C32_IndependentCounters ==
    ksGranted # <<>> =>
        \A e \in KsErrors : ksCounters[getRetryKey(e)] = ksGranted[e]

(***************************************************************************)
(* What a run leaves behind (Spec, the workspace executor).                *)
(***************************************************************************)
HasReturned == impl = "workspace" /\ pc \in {"done", "threw"}
InProgress == Cardinality(orphans) + (IF pc = "running" THEN 1 ELSE 0)

\* C33: once executePlan has returned, nothing the run started changes the
\* filesystem or the executor's context, and at no time is more than one
\* step operation of the run in progress.
C33_NothingAfterReturn ==
    /\ [][HasReturned => (fs' = fs /\ lastRead' = lastRead)]_vars
    /\ [](impl = "workspace" => InProgress <= 1)

(***************************************************************************)
(* SpecRuns: the runs of one Executor that read and extract.               *)
(***************************************************************************)
RunActions ==
    {Action("readFiles", InA, Undef, "", NoPath, NoPath),
     Action("extractText", NoPath, Undef, "", NoPath, NoPath),
     Action("noop", NoPath, Undef, "", NoPath, NoPath)}

RiInit ==
    /\ impl = "workspace"
    /\ execConfig = [workingDirectory |-> Workspace, allowedPaths |-> <<>>,
                     maxSteps |-> MaxReuseLen, playwrightEnabled |-> FALSE]
    /\ plan \in SeqsUpTo(RunActions, MaxReuseLen)
    /\ dryRun = FALSE /\ nodeEnv = "none"
    /\ fs = InitFS /\ pc = "start" /\ idx = 1 /\ results = <<>> /\ lastRead = Undef
    /\ logs = <<>> /\ deadline = FALSE /\ orphans = {} /\ started = <<>>
    /\ dispatched = <<>> /\ touched = {} /\ refused = {} /\ fsBefore = InitFS
    /\ SbIdle /\ VIdle /\ SfIdle /\ RmIdle /\ MoreIdle

RiAgain == CalledAgain(RunActions)

RiNext ==
    \/ LgStart
    \/ LgStep
    \/ LgComplete
    \/ (Cardinality(orphans) < MaxOrphans /\ LgTimeout)
    \/ LgOrphan
    \/ RiAgain

SpecRuns == RiInit /\ [][RiNext]_vars

Invokes == impl = "cowork" /\ pc # "confirm" /\ pc' = "confirm"
AwaitsConfirmation == impl = "cowork" /\ pc = "confirm"
StepBegins == impl = "cowork" /\ started' # started
Dispatches == impl = "cowork" /\ dispatched' # dispatched
Requires(k) == checkStep(plan[k]).requiresConfirmation

\* C35: in a dry run executeStep never calls requestConfirmation; outside
\* a dry run it calls it once when it begins a step that requires
\* confirmation, never for a step that does not, and a step that requires
\* confirmation is dispatched to its handler only out of that call.
C35_ConfirmationCalls ==
    /\ [](AwaitsConfirmation => (~dryRun /\ Requires(idx)))
    /\ [][StepBegins =>
            /\ started' = Append(started, idx) /\ idx \notin Range(started)
            /\ (pc' = "confirm") = (~dryRun /\ Requires(idx))]_vars
    /\ [][Invokes => StepBegins]_vars
    /\ [][Dispatches =>
            /\ dispatched' = Append(dispatched, idx) /\ ~dryRun
            /\ IF Requires(idx) THEN pc = "confirm" ELSE pc = "loop"]_vars

\* C35 witness: outside a dry run and outside the test mode, a step that
\* requires confirmation has been put to the user and then dispatched
C35_Witness ==
    /\ impl = "cowork" /\ ~dryRun /\ nodeEnv = "production"
    /\ \E k \in Range(dispatched) : Requires(k)

(***************************************************************************)
(* SpecEscalate: a caller recovers from failed operations and hands the    *)
(* errors attemptRecovery escalates with back to attemptRecovery; custom   *)
(* strategies may be registered for the name of the escalations.           *)
(***************************************************************************)
EsStrategies ==
    {RecoveryStrategy("retry", Some(n), Some(0), "none", Some(FALSE)) : n \in 0..MaxRetries}
    \cup {RecoveryStrategy("fallback", Undef, Undef, f, Some(FALSE)) :
             f \in {"none", "resolves", "rejects"}}
    \cup {RecoveryStrategy("user_intervention", Undef, Undef, "none", rc) :
             rc \in {Some(TRUE), Some(FALSE)}}
    \cup {RecoveryStrategy("abort", Undef, Undef, "none", Some(FALSE))}
EsErrors ==
    {FileSystemError(<<"ENOENT">>, ErrorContext("read", ""), Some(st)) : st \in EsStrategies}
EsCustoms ==
    {Undef} \cup {Some(RecoveryStrategy(a, Some(1), Some(0), "none", Some(FALSE))) :
                     a \in {"retry", "ignore", "abort"}}
EsKeys == {<<c, "read">> : c \in {"file_system", "system", "user_input"}}

EsInit ==
    /\ esCustom = [n \in {"FileSystemError", "CoworkError"} |-> Undef]
    /\ esCounters = [k \in EsKeys |-> 0]
    /\ esError = <<>> /\ esFed = FALSE /\ esOutcome = <<>>
    /\ SbIdle /\ VIdle /\ RunIdle /\ SfIdle /\ RmIdle /\ EfIdle /\ CcIdle /\ CliIdle /\ IlIdle /\ PlIdle /\ KsIdle /\ ErIdle /\ LogIdle

\* registerCustomStrategy('CoworkError', strategy)
EsRegister ==
    /\ esError = <<>>
    /\ \E st \in EsCustoms \ {Undef} : esCustom' = [esCustom EXCEPT !["CoworkError"] = st]
    /\ UNCHANGED <<esCounters, esError, esFed, esOutcome, esOthers>>

\* an operation of the caller fails
EsFail ==
    /\ esError = <<>>
    /\ \E e \in EsErrors : esError' = <<e>>
    /\ esFed' = FALSE
    /\ UNCHANGED <<esCustom, esCounters, esOutcome, esOthers>>

\* one call of attemptRecovery on the error held
EsAttempt ==
    /\ esError # <<>> /\ esOutcome = <<>>
    /\ LET settled == attemptRecovery(esError[1], esCustom, esCounters, 0)
       IN /\ esCounters' = settled.counters
          /\ esOutcome' = <<[settled |-> settled, before |-> esCounters]>>
    /\ UNCHANGED <<esCustom, esError, esFed, esOthers>>

\* the error attemptRecovery created with ErrorFactory.createError
Escalated == esOutcome # <<>> /\ esOutcome[1].settled.kind = "threw"
                 /\ esOutcome[1].settled.error[1].name = "CoworkError"

\* the caller hands the escalation to attemptRecovery
EsFeedBack ==
    /\ Escalated
    /\ esError' = esOutcome[1].settled.error /\ esFed' = TRUE /\ esOutcome' = <<>>
    /\ UNCHANGED <<esCustom, esCounters, esOthers>>

\* the caller gives up on the error, or goes on after a recovery
EsHandled ==
    /\ esOutcome # <<>>
    /\ esError' = <<>> /\ esFed' = FALSE /\ esOutcome' = <<>>
    /\ UNCHANGED <<esCustom, esCounters, esOthers>>

EsNext == EsRegister \/ EsFail \/ EsAttempt \/ EsFeedBack \/ EsHandled

SpecEscalate == EsInit /\ [][EsNext]_vars

\* the call on a fed-back escalation threw that error again and left the
\* counters alone
RethrownAtOnce ==
    /\ esOutcome[1].settled.kind = "threw" /\ esOutcome[1].settled.error = esError
    /\ esOutcome[1].settled.counters = esOutcome[1].before
    /\ esOutcome[1].settled.waited = <<>>
CarriesAbort == esError[1].recoveryStrategy.action = "abort" /\ ~esError[1].retryable

\* C36 as stated: an escalation carries an abort strategy and retryable =
\* false, and attemptRecovery on it throws it again at once with no
\* counter changed.
C36_EscalationTerminalStated ==
    esFed => (CarriesAbort /\ (esOutcome # <<>> => RethrownAtOnce))

\* C36: an escalation carries an abort strategy and retryable = false, and
\* attemptRecovery on it throws it again at once with no counter changed
\* unless a custom strategy is registered for the name 'CoworkError'.
C36_EscalationTerminal ==
    esFed => /\ CarriesAbort
             /\ (esOutcome # <<>> /\ esCustom["CoworkError"] = Undef) => RethrownAtOnce

\* C36 witness: the escalation of an exhausted retry budget was handed
\* back and thrown again
C36_Witness ==
    /\ esFed /\ esOutcome # <<>> /\ esCustom["CoworkError"] = Undef
    /\ esError[1].category = "system" /\ esCounters[<<"file_system", "read">>] > 0

(***************************************************************************)
(* Successful steps and the context log (Spec, the cowork executor).       *)
(***************************************************************************)
\* the entry the test of executeStep expects for a successful step
SuccessLog(step) == <<"OK ", step.description>>

\* C37: outside a dry run, context.logs holds one entry per executed step
\* (a step refused at its confirmation is not executed), in the order of
\* execution, and the entry of a successful step is the success mark
\* followed by the step's description.
C37_SuccessLogged ==
    (impl = "cowork" /\ ~dryRun) =>
        /\ Len(logs) = Cardinality({k \in DOMAIN results : results[k].stepId \notin refused})
        /\ \A k \in DOMAIN results :
              results[k].success => logs[k] = SuccessLog(plan[results[k].stepId])

\* ---------------------------------------------------------------------------
\* EnhancedCoworkLite.run (src/src/index-enhanced.ts): the plan prompt and the
\* step loop over Executor.executeStep
\* ---------------------------------------------------------------------------

MaxRunLen == 3

\* what stdin can deliver to the 'data' listener of promptUser
StdinData == {"y", "Y", "yes", "Yes", " y ", "n", "N", "no", ""}

\* String.prototype.trim on the data the model draws
trim(str) == IF str = " y " THEN "y" ELSE str

\* the test of the plan prompt's answer
affirmative(answer) == toLowerCase(answer) = "y" \/ toLowerCase(answer) = "yes"

\* a failed step that leaves the loop at once
breaks_Never(result, options) == FALSE

\* the break of the step loop
breaks(result, options) == ~result.success /\ ~options.force

\* Executor.executeStep(step, context) as run sees it: it never throws, a dry
\* run reports success without executing, and otherwise the step succeeds or
\* fails (a thrown handler, a refused confirmation)
executeStepResult(k, behaviour, context) ==
    [stepId |-> k, success |-> context.dryRun \/ behaviour = "ok"]

\* the summary run returns
TaskSummary(steps, theResults) ==
    LET completedSteps == Cardinality({k \in DOMAIN theResults : theResults[k].success})
    IN [totalSteps |-> Len(steps),
        completedSteps |-> completedSteps,
        status |-> IF completedSteps = Len(steps) THEN "completed" ELSE "failed",
        results |-> theResults]

ErInit ==
    /\ erOptions \in [dryRun : BOOLEAN, force : BOOLEAN]
    /\ erPlan \in SeqsUpTo({"ok", "fails"}, MaxRunLen)
    /\ erPc = "start" /\ erTimer = "unset" /\ erAnswer = <<>>
    /\ erResults = <<>> /\ erSummary = <<>>
    /\ SbIdle /\ VIdle /\ RunIdle /\ SfIdle /\ RmIdle /\ EfIdle /\ CcIdle /\ CliIdle /\ IlIdle /\ PlIdle /\ KsIdle /\ EsIdle /\ LogIdle

\* run up to its first await after the plan is shown: an empty plan returns,
\* a dry run or --force goes to the loop, otherwise promptUser is called
ErShowPlan ==
    /\ erPc = "start"
    /\ IF Len(erPlan) = 0
         THEN /\ erSummary' = <<TaskSummary(erPlan, <<>>)>> /\ erPc' = "returned"
              /\ UNCHANGED erTimer
         ELSE IF ~erOptions.dryRun /\ ~erOptions.force
                THEN erPc' = "prompt" /\ erTimer' = "pending" /\ UNCHANGED erSummary
                ELSE erPc' = "loop" /\ UNCHANGED <<erTimer, erSummary>>
    /\ UNCHANGED <<erOptions, erPlan, erAnswer, erResults, erOthers>>

\* the once('data') listener of promptUser
ErData ==
    /\ erPc = "prompt"
    /\ \E data \in StdinData : erAnswer' = <<trim(data)>>
    /\ erPc' = "gate"
    /\ UNCHANGED <<erOptions, erPlan, erTimer, erResults, erSummary, erOthers>>

\* the 30 s timer of promptUser, never cleared: it resolves the prompt with
\* '' when no data came first, and changes nothing when it fires later
ErTimeout ==
    /\ erTimer = "pending" /\ erPc # "exited"
    /\ erTimer' = "fired"
    /\ IF erPc = "prompt"
         THEN erAnswer' = <<"">> /\ erPc' = "gate"
         ELSE UNCHANGED <<erAnswer, erPc>>
    /\ UNCHANGED <<erOptions, erPlan, erResults, erSummary, erOthers>>

\* run resumed with the answer: process.exit(0) unless it is y or yes
ErGate ==
    /\ erPc = "gate"
    /\ erPc' = IF affirmative(erAnswer[1]) THEN "loop" ELSE "exited"
    /\ UNCHANGED <<erOptions, erPlan, erTimer, erAnswer, erResults, erSummary, erOthers>>

\* one iteration of the step loop
ErStep ==
    /\ erPc = "loop"
    /\ LET k == Len(erResults) + 1
           result == executeStepResult(k, erPlan[k], [dryRun |-> erOptions.dryRun])
       IN /\ erResults' = Append(erResults, result)
          /\ erPc' = IF breaks(result, erOptions) \/ k = Len(erPlan) THEN "summary" ELSE "loop"
    /\ UNCHANGED <<erOptions, erPlan, erTimer, erAnswer, erSummary, erOthers>>

\* the summary after the loop
ErReturn ==
    /\ erPc = "summary"
    /\ erSummary' = <<TaskSummary(erPlan, erResults)>> /\ erPc' = "returned"
    /\ UNCHANGED <<erOptions, erPlan, erTimer, erAnswer, erResults, erOthers>>

ErNext == ErShowPlan \/ ErData \/ ErTimeout \/ ErGate \/ ErStep \/ ErReturn

SpecEnhanced == ErInit /\ [][ErNext]_vars

Answered == erAnswer # <<>>
AllSucceeded == Len(erResults) = Len(erPlan) /\ \A k \in DOMAIN erResults : erResults[k].success

\* C38: steps of a non-empty plan are executed only in a dry run, with --force
\* or after the answer y or yes; any other answer, the 30 s timeout included,
\* ends the run with no step executed; the steps run in declared order, without
\* --force up to the first failed step and with --force all of them; and the
\* status is 'completed' exactly when every step of the plan succeeded.
C38_GateAndLoop ==
    /\ erResults # <<>> =>
          erOptions.dryRun \/ erOptions.force \/ (Answered /\ affirmative(erAnswer[1]))
    /\ (Answered /\ ~affirmative(erAnswer[1]) /\ erPc # "gate") =>
          erPc = "exited" /\ erResults = <<>> /\ erSummary = <<>>
    /\ erPc = "exited" => erResults = <<>>
    /\ \A k \in DOMAIN erResults : erResults[k].stepId = k
    /\ ~erOptions.force =>
          \A k \in DOMAIN erResults : ~erResults[k].success => k = Len(erResults) /\ erPc # "loop"
    /\ erPc = "returned" =>
          /\ Len(erResults) < Len(erPlan) =>
                ~erOptions.force /\ ~erResults[Len(erResults)].success
          /\ erSummary[1].results = erResults
          /\ erSummary[1].status = "completed" <=> AllSucceeded

\* C38: a run without --force and outside a dry run that was answered yes,
\* stopped at a failed second step of three and returned 'failed'
C38_Witness ==
    /\ erPc = "returned" /\ ~erOptions.dryRun /\ ~erOptions.force
    /\ Answered /\ affirmative(erAnswer[1])
    /\ Len(erPlan) = 3 /\ Len(erResults) = 2 /\ erResults[1].success
    /\ erSummary[1].status = "failed"

\* ---------------------------------------------------------------------------
\* Logger (src/src/logger/index.ts) with logToFile set and writes succeeding:
\* log calls, the flushBuffer calls chained on writePromise, and flush()
\* ---------------------------------------------------------------------------

MaxLogCalls == 3
MaxFlushCalls == 1

LogLevels == {"DEBUG", "INFO", "WARN", "ERROR"}

LOG_LEVEL_PRIORITY == [l \in LogLevels |->
    CASE l = "DEBUG" -> 0 [] l = "INFO" -> 1 [] l = "WARN" -> 2 [] l = "ERROR" -> 3]

\* every level passes
shouldLog_Always(level, minLevel) == TRUE

shouldLog(level, minLevel) == LOG_LEVEL_PRIORITY[level] >= LOG_LEVEL_PRIORITY[minLevel]

\* the line of an entry; the n-th log call stands for its timestamp and message
formatLogEntry(entry) == <<entry.n, entry.level>>

LoInit ==
    /\ logMin \in LogLevels
    /\ logCalls = <<>> /\ logBuffer = <<>> /\ logFile = <<>>
    /\ logLinks = 0 /\ logDone = 0 /\ logTask = <<>> /\ logWaits = <<>>
    /\ logOverlap = FALSE
    /\ SbIdle /\ VIdle /\ RunIdle /\ SfIdle /\ RmIdle /\ EfIdle /\ CcIdle /\ CliIdle /\ IlIdle /\ PlIdle /\ KsIdle /\ EsIdle /\ ErIdle

\* log(level, message): dropped below minLevel, else pushed on the buffer and
\* one more flushBuffer chained on writePromise
LoLog ==
    /\ Len(logCalls) < MaxLogCalls
    /\ \E level \in LogLevels :
          /\ logCalls' = Append(logCalls, level)
          /\ IF shouldLog(level, logMin)
               THEN /\ logBuffer' = Append(logBuffer, [n |-> Len(logCalls) + 1, level |-> level])
                    /\ logLinks' = logLinks + 1
                    /\ logOverlap' = (logOverlap \/ logTask # <<>>)
               ELSE UNCHANGED <<logBuffer, logLinks, logOverlap>>
    /\ UNCHANGED <<logMin, logFile, logDone, logTask, logWaits, logOthers>>

\* the next chained flushBuffer starts once the one before it has settled: it
\* returns at once on an empty buffer, else takes the buffer and awaits mkdir
LoFlushBuffer ==
    /\ logTask = <<>> /\ logDone < logLinks
    /\ IF logBuffer = <<>>
         THEN logDone' = logDone + 1 /\ UNCHANGED <<logTask, logBuffer>>
         ELSE /\ logTask' = <<[entries |-> logBuffer, at |-> "mkdir"]>>
              /\ logBuffer' = <<>>
              /\ UNCHANGED logDone
    /\ UNCHANGED <<logMin, logCalls, logFile, logLinks, logWaits, logOverlap, logOthers>>

\* ensureLogDir resolved
LoEnsureLogDir ==
    /\ logTask # <<>> /\ logTask[1].at = "mkdir"
    /\ logTask' = <<[logTask[1] EXCEPT !.at = "append"]>>
    /\ UNCHANGED <<logMin, logCalls, logBuffer, logFile, logLinks, logDone, logWaits,
                   logOverlap, logOthers>>

\* fs.appendFile resolved: the taken entries are in the file and the
\* flushBuffer settles
LoAppendFile ==
    /\ logTask # <<>> /\ logTask[1].at = "append"
    /\ logFile' = logFile \o [k \in DOMAIN logTask[1].entries |->
                                 formatLogEntry(logTask[1].entries[k])]
    /\ logTask' = <<>> /\ logDone' = logDone + 1
    /\ UNCHANGED <<logMin, logCalls, logBuffer, logLinks, logWaits, logOverlap, logOthers>>

\* flush() called: it awaits the writePromise of that moment
LoFlush ==
    /\ Len(logWaits) < MaxFlushCalls
    /\ logWaits' = Append(logWaits, [links |-> logLinks, before |-> Len(logCalls),
                                     resolved |-> FALSE, file |-> <<>>])
    /\ UNCHANGED <<logMin, logCalls, logBuffer, logFile, logLinks, logDone, logTask,
                   logOverlap, logOthers>>

\* a flush() resolves once the writePromise it awaits has settled
LoFlushResolves ==
    /\ \E w \in DOMAIN logWaits :
          /\ ~logWaits[w].resolved /\ logDone >= logWaits[w].links
          /\ logWaits' = [logWaits EXCEPT ![w].resolved = TRUE, ![w].file = logFile]
    /\ UNCHANGED <<logMin, logCalls, logBuffer, logFile, logLinks, logDone, logTask,
                   logOverlap, logOthers>>

LoNext == LoLog \/ LoFlushBuffer \/ LoEnsureLogDir \/ LoAppendFile \/ LoFlush \/ LoFlushResolves

SpecLogger == LoInit /\ [][LoNext]_vars

LineOf(n) == formatLogEntry([n |-> n, level |-> logCalls[n]])
InFile(n, file) == \E k \in DOMAIN file : file[k] = LineOf(n)

\* C39: when a flush() resolves, every entry logged before it at or above
\* minLevel is in the file; the file holds the entries in the order they were
\* logged, each once; and no entry below minLevel is in the file.
C39_FlushedInOrder ==
    /\ \A w \in DOMAIN logWaits : logWaits[w].resolved =>
          \A n \in 1..logWaits[w].before :
              shouldLog(logCalls[n], logMin) => InFile(n, logWaits[w].file)
    /\ \A j, k \in DOMAIN logFile : j < k => logFile[j][1] < logFile[k][1]
    /\ \A k \in DOMAIN logFile :
          /\ logFile[k][1] \in DOMAIN logCalls
          /\ logFile[k] = LineOf(logFile[k][1])
          /\ LOG_LEVEL_PRIORITY[logFile[k][2]] >= LOG_LEVEL_PRIORITY[logMin]

\* C39: a flush() has resolved after two entries were written, one of them
\* logged while a flushBuffer was in progress, and a call below minLevel
\* was dropped
C39_Witness ==
    /\ logOverlap
    /\ \E w \in DOMAIN logWaits :
          logWaits[w].resolved /\ Len(logWaits[w].file) >= 2 /\ logWaits[w].before = 3
    /\ \E n \in DOMAIN logCalls : LOG_LEVEL_PRIORITY[logCalls[n]] < LOG_LEVEL_PRIORITY[logMin]

====
